---- MODULE Spec2Model ----
(***************************************************************************)
(* State-machine model of the 2048 variant in src/js/game_manager.js       *)
(* (GameManager: move / undo / exchange / restart), together with the      *)
(* parts of SoundManager (src/js/sound_manager.js) and LocalStorageManager *)
(* (src/unnamed/part_002) whose state the handlers change.                 *)
(*                                                                         *)
(* A grid cell is addressed by <<x, y>>; a tile is a record carrying its   *)
(* value, its own idea of its position (x, y) and the mergedFrom /         *)
(* justSpawned flags.  NoTile stands for null.                             *)
(***************************************************************************)
EXTENDS Integers, Sequences, FiniteSets, TLC

VARIABLES
    cells,            \* this.grid.cells : [Pos -> tile record or NoTile]
    score,            \* this.score
    bestScore,        \* this.bestScore
    over,             \* this.over
    won,              \* this.won
    keepPlaying,      \* this.keepPlaying
    undoStack,        \* this.undoStack : sequence of snapshots
    undosUsed,        \* this.undosUsed
    exchangesUsed,    \* this.exchangesUsed
    exchangeMode,     \* this._exchangeMode
    exchangeFirst,    \* this._exchangeFirst  (NoPos = null)
    exchangeSecond,   \* this._exchangeSecond (NoPos = null)
    exchangePending,  \* this._exchangePending
    timers,           \* number of dwell callbacks scheduled by setTimeout and not yet run
    snd,              \* SoundManager closure state, see NewSound
    storedBest,       \* value kept by the storage under bestScoreKey
    last,             \* observation of the handler that ran last (what it was, what it did)
    movesLeft,        \* displacing moves the exploration still follows
    restartsLeft,     \* restarts the exploration still follows
    fx,               \* SpaceEffects closure state and the effect timers of the
                      \* actuator, see NoEffects
    store,            \* the LocalStorageManager and the storage behind it, see
                      \* NewStore
    dom               \* the overlays and particle waves of one merge effect in
                      \* the order they took effect, and its pending timers

gameVars == <<cells, score, bestScore, over, won, keepPlaying, undoStack, undosUsed,
              exchangesUsed, exchangeMode, exchangeFirst, exchangeSecond, exchangePending>>
vars == <<cells, score, bestScore, over, won, keepPlaying, undoStack, undosUsed,
          exchangesUsed, exchangeMode, exchangeFirst, exchangeSecond, exchangePending,
          timers, snd, storedBest, last, movesLeft, restartsLeft, fx, store,
          dom>>

----------------------------------------------------------------------------
(* Program constants and exploration bounds *)

Size == 4                \* side of the board (new GameManager(size, ...))
StartTiles == 2          \* this.startTiles
UndoCap == 2             \* "max 2 undos per game", capacity of the undo stack
ExchangeCap == 2         \* "max 2 exchanges per game"
WinValue == 2048         \* merged.value === 2048
MAX_PARTICLES == 200     \* var MAX_PARTICLES = 200: the cap of the particle pool

MaxMoves == 1            \* displacing moves followed from a given state
MaxRestarts == 1         \* restarts followed from a given state
MaxExp == 2              \* the examined lines hold tiles 2^1 .. 2^MaxExp
MaxStale == 1            \* dwell callbacks left over from the game before
MaxLife == 2             \* a particle lives 1 .. MaxLife runs of frames
MaxStored == 2           \* the scores written to storage are 0, 2, .. 2 * MaxStored
MaxEffects == 2          \* calls of trigger and triggerSplit followed besides
                         \* those the actuator schedules

----------------------------------------------------------------------------
(* Grid and Tile *)

Coord == 0 .. (Size - 1)
Pos == Coord \X Coord
NoPos == <<-1, -1>>

NoTile == [value |-> 0, x |-> -1, y |-> -1, merged |-> FALSE, spawned |-> FALSE,
           prev |-> NoPos]

\* new Tile(position, value): no previousPosition, no mergedFrom, not justSpawned
Tile(p, v) == [value |-> v, x |-> p[1], y |-> p[2], merged |-> FALSE, spawned |-> FALSE,
               prev |-> NoPos]

\* f itself, stored as an explicit table (TLC then updates and compares it cheaply)
Table(f) == f @@ f

\* new Grid(size): every cell null
EmptyGrid == Table([p \in Pos |-> NoTile])

withinBounds(p) == p[1] >= 0 /\ p[1] < Size /\ p[2] >= 0 /\ p[2] < Size

cellContent(g, p) == IF withinBounds(p) THEN g[p] ELSE NoTile

cellAvailable(g, p) == cellContent(g, p) = NoTile

\* the scan order of Grid.eachCell: x outer, y inner
ScanOrder == [i \in 1 .. (Size * Size) |-> <<(i - 1) \div Size, (i - 1) % Size>>]

RECURSIVE FilterSeq(_, _, _)
FilterSeq(s, g, i) ==
    IF i > Len(s) THEN <<>>
    ELSE IF g[s[i]] = NoTile THEN <<s[i]>> \o FilterSeq(s, g, i + 1)
    ELSE FilterSeq(s, g, i + 1)

\* Grid.availableCells: the empty cells, in scan order
availableCells(g) == FilterSeq(ScanOrder, g, 1)

cellsAvailable(g) == \E p \in Pos : g[p] = NoTile

\* Grid.insertTile / Grid.removeTile: indexed by the tile's own position
insertTile(g, t) == [g EXCEPT ![<<t.x, t.y>>] = t]
removeTile(g, t) == [g EXCEPT ![<<t.x, t.y>>] = NoTile]

\* Tile.updatePosition
updatePosition(t, p) == [t EXCEPT !.x = p[1], !.y = p[2]]

\* Tile.savePosition: previousPosition = the tile's current position
savePosition(t) == [t EXCEPT !.prev = <<t.x, t.y>>]

TilePos(t) == <<t.x, t.y>>

Values(g) == Table([p \in Pos |-> g[p].value])

----------------------------------------------------------------------------
(* SoundManager: play, stopPowerUp, resetTerminal *)

SoundNames == {"move", "merge", "spawn", "undo", "swapSelect", "swapConfirm",
               "swap", "blackHole", "win", "gameover"}

\* The closure state of the SoundManager.  muted, terminalPlayed and pu (the
\* handles _puGain, _puOsc1, ... are set) are its variables; the other fields
\* record what the audio graph has been asked to do:
\*   active        loop instances started and not scheduled to stop
\*   wins          runs of _playWin since the last resetTerminal
\*   gameovers     runs of _playGameover since the last resetTerminal
\*   swapOverLoop  _playSwap created its voices while a loop instance was active
\*   replaced      the running loop instance was started while another one
\*                 was running, which _playSwapSelect stopped first
\* and two fields tell about the audio backend:
\*   broken        creating the AudioContext or a node throws
\*   raised        an exception has left play or stopPowerUp
NewSound(loopOn) ==
    [muted |-> FALSE, terminalPlayed |-> FALSE, pu |-> loopOn,
     active |-> IF loopOn THEN 1 ELSE 0, wins |-> 0, gameovers |-> 0,
     swapOverLoop |-> FALSE, replaced |-> FALSE, broken |-> FALSE, raised |-> FALSE]

\* names that are no keys of _sounds but are found on the object all the same,
\* as members every object inherits: _sounds[name] is then a function that has
\* nothing to do with the audio graph
InheritedNames == {"toString", "constructor"}

\* a stop that drops the handles and lets the nodes run on
stopPowerUpHandlesOnly(s) == [s EXCEPT !.pu = FALSE]

\* _stopPowerUp: schedules the stop of the loop nodes and drops the handles,
\* when there are any
stopPowerUp(s) ==
    IF ~s.pu THEN s
    ELSE [s EXCEPT !.pu = FALSE, !.active = s.active - 1, !.replaced = FALSE]

\* the body of _playSwapSelect after its first line: a new loop instance
startPowerUp(s) == [s EXCEPT !.pu = TRUE, !.active = s.active + 1]

\* _playSwapSelect: the stop of a lingering instance, then the new instance
playSwapSelect(s) ==
    startPowerUp([stopPowerUp(s) EXCEPT !.replaced = s.pu])

\* the body of _playSwap after its first line: the voices of the swap sound
swapVoices(s) == [s EXCEPT !.swapOverLoop = s.swapOverLoop \/ s.active > 0]

\* recipes that go straight to their voices
RecipeNoStop(name, s) ==
    CASE name = "swapSelect" -> startPowerUp(s)
      [] name = "swap"       -> swapVoices(s)
      [] name = "win"        -> [s EXCEPT !.wins = s.wins + 1]
      [] name = "gameover"   -> [s EXCEPT !.gameovers = s.gameovers + 1]
      [] OTHER               -> s

\* the effect of the recipe _sounds[name] on the closure state
Recipe(name, s) ==
    CASE name = "swapSelect" -> playSwapSelect(s)
      [] name = "swap"       -> swapVoices(stopPowerUp(s))
      [] name = "win"        -> [s EXCEPT !.wins = s.wins + 1]
      [] name = "gameover"   -> [s EXCEPT !.gameovers = s.gameovers + 1]
      [] OTHER               -> s

\* the recipe _sounds[name] with the backend blocked: what runs before the
\* first creation of a context or node, which throws
RecipeBlocked(name, s) ==
    CASE name = "swapSelect" -> stopPowerUp(s)
      [] name = "swap"       -> stopPowerUp(s)
      [] OTHER               -> s

\* a call of fn() that lets the exception of a blocked backend through
Unguarded(name, s) ==
    IF name \in InheritedNames THEN s
    ELSE IF s.broken THEN [RecipeBlocked(name, s) EXCEPT !.raised = TRUE]
    ELSE Recipe(name, s)

\* try { fn(); } catch (e) { }
Guarded(name, s) ==
    IF name \in InheritedNames THEN s
    ELSE IF s.broken THEN RecipeBlocked(name, s)
    ELSE Recipe(name, s)

\* a test that overlooks the mute switch
DispatchedWhenMuted(name, s) ==
    /\ name \in SoundNames \cup InheritedNames
    /\ name \in {"win", "gameover"} => ~s.terminalPlayed

\* play(name) gets as far as fn()
Dispatched(name, s) ==
    /\ ~s.muted
    /\ name \in SoundNames \cup InheritedNames
    /\ name \in {"win", "gameover"} => ~s.terminalPlayed

\* a dispatcher without the one-shot latch
playUnlatched(name, s) ==
    IF s.muted THEN s
    ELSE IF name \notin SoundNames THEN s
    ELSE Recipe(name, s)

play(name, s) ==
    IF ~Dispatched(name, s) THEN s
    ELSE IF name \in {"win", "gameover"}
         THEN Guarded(name, [s EXCEPT !.terminalPlayed = TRUE])
         ELSE Guarded(name, s)

\* resetTerminal clears the latch; a new count of terminal sounds starts
resetTerminal(s) == [s EXCEPT !.terminalPlayed = FALSE, !.wins = 0, !.gameovers = 0]

toggleMute(s) == [s EXCEPT !.muted = ~s.muted]

----------------------------------------------------------------------------
(* GameManager helpers *)

Dirs == 0 .. 3

\* getVector: 0 = up, 1 = right, 2 = down, 3 = left
getVector(d) ==
    CASE d = 0 -> <<0, -1>>
      [] d = 1 -> <<1, 0>>
      [] d = 2 -> <<0, 1>>
      [] d = 3 -> <<-1, 0>>

Ascending == [i \in 1 .. Size |-> i - 1]
Descending == [i \in 1 .. Size |-> Size - i]

\* buildTraversals without the reversal for moves toward the right / the bottom
buildTraversalsAscending(vec) == [x |-> Ascending, y |-> Ascending]

\* buildTraversals: the order in which the columns (x) and rows (y) are visited
buildTraversals(vec) ==
    [x |-> IF vec[1] = 1 THEN Descending ELSE Ascending,
     y |-> IF vec[2] = 1 THEN Descending ELSE Ascending]

\* the cells in the order of trav.x.forEach(x => trav.y.forEach(y => ...))
TraversalCells(trav) ==
    [i \in 1 .. (Size * Size) |-> <<trav.x[((i - 1) \div Size) + 1], trav.y[((i - 1) % Size) + 1]>>]

\* findFarthest: slide along vec until a wall or an occupied cell
RECURSIVE findFarthest(_, _, _)
findFarthest(g, cell, vec) ==
    LET nxt == <<cell[1] + vec[1], cell[2] + vec[2]>>
    IN  IF withinBounds(nxt) /\ cellAvailable(g, nxt)
        THEN findFarthest(g, nxt, vec)
        ELSE [farthest |-> cell, next |-> nxt]

\* prepareGrid: clear merge info and save the position of every tile
prepareGrid(g) ==
    Table([p \in Pos |-> IF g[p] = NoTile THEN NoTile
                         ELSE savePosition([g[p] EXCEPT !.merged = FALSE])])

\* moveTile: vacate the tile's own cell, store it at the destination, update it
moveTile(g, tile, cell) ==
    [[g EXCEPT ![TilePos(tile)] = NoTile] EXCEPT ![cell] = updatePosition(tile, cell)]

\* the merge test without the "not already merged this turn" condition
CanMergeAgain(next, tile) == next # NoTile /\ next.value = tile.value

\* the merge test of move: "same value and not already merged this turn"
CanMerge(next, tile) == next # NoTile /\ next.value = tile.value /\ ~next.merged

\* the merge branch that forgets grid.removeTile(tile)
MergeIntoKeepsSource(m, cell, tile, nextPos) ==
    LET merged == [Tile(nextPos, tile.value * 2) EXCEPT !.merged = TRUE]
        sc == m.score + tile.value * 2
        newBest == m.score + tile.value * 2 > m.bestScore
        isWin == tile.value * 2 = WinValue
    IN  [cells |-> insertTile(m.cells, merged),
         score |-> sc,
         bestScore |-> IF newBest THEN sc ELSE m.bestScore,
         stored |-> IF newBest THEN sc ELSE m.stored,
         won |-> IF isWin THEN TRUE ELSE m.won,
         snd |-> IF isWin THEN play("win", play("merge", m.snd)) ELSE play("merge", m.snd),
         moved |-> m.moved \/ (TilePos(updatePosition(tile, nextPos)) # cell)]

\* a merge branch that scores the value of one input tile
MergeIntoScoresInput(m, cell, tile, nextPos) ==
    LET merged == [Tile(nextPos, tile.value * 2) EXCEPT !.merged = TRUE]
        sc == m.score + tile.value
        newBest == sc > m.bestScore
        isWin == tile.value * 2 = WinValue
    IN  [cells |-> removeTile(insertTile(m.cells, merged), tile),
         score |-> sc,
         bestScore |-> IF newBest THEN sc ELSE m.bestScore,
         stored |-> IF newBest THEN sc ELSE m.stored,
         won |-> IF isWin THEN TRUE ELSE m.won,
         snd |-> IF isWin THEN play("win", play("merge", m.snd)) ELSE play("merge", m.snd),
         moved |-> m.moved \/ (TilePos(updatePosition(tile, nextPos)) # cell)]

\* a merge branch that leaves the best score alone
MergeIntoKeepsBest(m, cell, tile, nextPos) ==
    LET merged == [Tile(nextPos, tile.value * 2) EXCEPT !.merged = TRUE]
        isWin == tile.value * 2 = WinValue
    IN  [cells |-> removeTile(insertTile(m.cells, merged), tile),
         score |-> m.score + tile.value * 2,
         bestScore |-> m.bestScore,
         stored |-> m.stored,
         won |-> IF isWin THEN TRUE ELSE m.won,
         snd |-> IF isWin THEN play("win", play("merge", m.snd)) ELSE play("merge", m.snd),
         moved |-> m.moved \/ (TilePos(updatePosition(tile, nextPos)) # cell)]

\* the merge branch of the loop body of move (lines 100-117)
MergeInto(m, cell, tile, nextPos) ==
    LET merged == [Tile(nextPos, tile.value * 2) EXCEPT !.merged = TRUE]
        sc == m.score + tile.value * 2
        newBest == m.score + tile.value * 2 > m.bestScore
        isWin == tile.value * 2 = WinValue
    IN  [cells |-> removeTile(insertTile(m.cells, merged), tile),
         score |-> sc,
         bestScore |-> IF newBest THEN sc ELSE m.bestScore,
         stored |-> IF newBest THEN sc ELSE m.stored,
         won |-> IF isWin THEN TRUE ELSE m.won,
         snd |-> IF isWin THEN play("win", play("merge", m.snd)) ELSE play("merge", m.snd),
         \* tile.updatePosition(positions.next), then !posEqual(cell, tile)
         moved |-> m.moved \/ (TilePos(updatePosition(tile, nextPos)) # cell)]

\* the slide branch that never reports a displacement
SlideToUnnoticed(m, cell, tile, farthest) ==
    [m EXCEPT !.cells = moveTile(m.cells, tile, farthest)]

\* the slide branch of the loop body of move (lines 119-122)
SlideTo(m, cell, tile, farthest) ==
    [m EXCEPT !.cells = moveTile(m.cells, tile, farthest),
              \* !posEqual(cell, tile) after tile.updatePosition
              !.moved = m.moved \/ (TilePos(updatePosition(tile, farthest)) # cell)]

MoveTileAt(m, cell, tile, positions) ==
    IF CanMerge(cellContent(m.cells, positions.next), tile)
    THEN MergeInto(m, cell, tile, positions.next)
    ELSE SlideTo(m, cell, tile, positions.farthest)

\* The body of the double forEach of move for one cell.  m carries what the
\* loop body reads and writes: the grid, score, bestScore, the stored best
\* score, won, the sound state and the moved flag.
MoveCell(m, cell, vec) ==
    IF cellContent(m.cells, cell) = NoTile THEN m
    ELSE MoveTileAt(m, cell, cellContent(m.cells, cell), findFarthest(m.cells, cell, vec))

RECURSIVE MoveLoop(_, _, _, _)
MoveLoop(m, order, i, vec) ==
    IF i > Len(order) THEN m
    ELSE MoveLoop(MoveCell(m, order[i], vec), order, i + 1, vec)

\* the slide/merge phase of move(direction): prepareGrid and the traversal
Slide(g, sc, best, stored, w, s, direction) ==
    LET vec == getVector(direction)
        order == TraversalCells(buildTraversals(vec))
        m0 == [cells |-> prepareGrid(g), score |-> sc, bestScore |-> best,
               stored |-> stored, won |-> w, snd |-> s, moved |-> FALSE]
    IN  MoveLoop(m0, order, 1, vec)

\* matchesAvailable: some tile has an equal orthogonal neighbour
matchesAvailable(g) ==
    \E p \in Pos : g[p] # NoTile /\
        \E d \in Dirs :
            LET vec == getVector(d)
                other == cellContent(g, <<p[1] + vec[1], p[2] + vec[2]>>)
            IN  other # NoTile /\ other.value = g[p].value

\* a test that looks for empty cells only
movesAvailableCellsOnly(g) == cellsAvailable(g)

movesAvailable(g) == cellsAvailable(g) \/ matchesAvailable(g)

\* a test that knows the lost game only
isTerminatedOverOnly(o, w, k) == o

isTerminated(o, w, k) == o \/ (w /\ ~k)

\* a snapshot that leaves the score out
snapshotStateNoScore(g, sc, o, w) == [cells |-> Values(g), score |-> 0, over |-> o, won |-> w]

\* _snapshotState: the cell values, the score and the two flags
snapshotState(g, sc, o, w) == [cells |-> Values(g), score |-> sc, over |-> o, won |-> w]

\* _clearMergeState: drop mergedFrom, previousPosition and justSpawned of every tile
clearMergeState(g) ==
    Table([p \in Pos |-> IF g[p] = NoTile THEN NoTile
                         ELSE [g[p] EXCEPT !.merged = FALSE, !.prev = NoPos,
                                           !.spawned = FALSE]])

----------------------------------------------------------------------------
(* Random inputs of spawnTile *)

SpawnValues == {2, 4}                     \* Math.random() < 0.9 ? 2 : 4

\* The indices randomAvailableCell may pick in the list of available cells,
\* cells[Math.floor(Math.random() * cells.length)].  The exploration follows the
\* two extreme outcomes of Math.random(): the first and the last available cell.
\* (With no cell available spawnTile returns before it draws; the index is unused.)
SpawnIndices(g) ==
    LET n == Len(availableCells(g)) IN IF n = 0 THEN {1} ELSE {1, n}

\* a spawn that takes the i-th cell of the grid, available or not
spawnTileAnyCell(g, s, i, v) ==
    IF ~cellsAvailable(g) THEN [cells |-> g, snd |-> s, at |-> NoPos]
    ELSE LET p == ScanOrder[i]
             tile == [Tile(p, v) EXCEPT !.spawned = TRUE]
         IN  [cells |-> insertTile(g, tile), snd |-> play("spawn", s), at |-> p]

\* spawnTile with the random outcomes (i, v): returns the grid and the sound state
spawnTile(g, s, i, v) ==
    IF ~cellsAvailable(g) THEN [cells |-> g, snd |-> s, at |-> NoPos]
    ELSE LET p == availableCells(g)[i]
             tile == [Tile(p, v) EXCEPT !.spawned = TRUE]
         IN  [cells |-> insertTile(g, tile), snd |-> play("spawn", s), at |-> p]

----------------------------------------------------------------------------
(* What the handler that ran last did *)

\* no merge effect under way: nothing has taken effect, no timer is pending
NoOverlays == [key |-> 0, log |-> <<>>, timers |-> <<>>]

\* the game keeps its best score in storedBest; the LocalStorageManager itself
\* is examined on its own, and elsewhere no manager has been constructed
NoStore == [ls |-> "works", uses |-> "none", data |-> <<>>, wrote |-> <<>>]

\* SpaceEffects before the first effect: var particles = [], isRunning = false
\* (rafId is non-null exactly while isRunning), no second-wave timer of trigger
\* pending, and no effect timer of the actuator pending
NoEffects ==
    [particles |-> <<>>, isRunning |-> FALSE, bursts |-> <<>>,
     mergeTimers |-> <<>>, splitTimers |-> 0, left |-> MaxEffects]

\* no record of an earlier game state
NoFrom == [cells |-> <<>>, score |-> -1, over |-> FALSE, won |-> FALSE]

Obs(op, acc, d, p, r, sp) ==
    [op |-> op, accepted |-> acc, dir |-> d, pos |-> p, renders |-> r, spawnedAt |-> sp,
     from |-> NoFrom]

\* the observation of a displacing move also keeps what the game was before it
MoveObs(d, sp, g, sc, o, w) ==
    [Obs("move", TRUE, d, NoPos, 1, sp) EXCEPT
        !.from = [cells |-> Table([p \in Pos |-> g[p].value]), score |-> sc,
                  over |-> o, won |-> w]]

\* The handler that ran last rejected its input, or was a move that displaced
\* nothing: the state equals its predecessor in every program variable (up to
\* the animation flags prepareGrid resets), so the exploration goes on from the
\* predecessor only.
Idle == ~last.accepted /\ last.op \in {"move", "undo", "exchangeToggle", "tileClick"}

----------------------------------------------------------------------------
(* GameManager.prototype.setup (constructor and restart) *)

\* the state setup leaves behind, the two start tiles being (i1, v1) and (i2, v2)
SetupState(i1, v1, i2, v2, s) ==
    LET t1 == spawnTile(EmptyGrid, s, i1, v1)
        t2 == spawnTile(t1.cells, t1.snd, i2, v2)
    IN  /\ cells' = t2.cells
        /\ snd' = t2.snd
        /\ over' = FALSE
        /\ won' = FALSE
        /\ keepPlaying' = FALSE
        /\ score' = 0
        /\ bestScore' = storedBest
        /\ undoStack' = <<>>
        /\ undosUsed' = 0
        /\ exchangesUsed' = 0
        /\ exchangeMode' = FALSE
        /\ exchangeFirst' = NoPos
        /\ exchangeSecond' = NoPos
        /\ exchangePending' = FALSE

Restart ==
    /\ restartsLeft > 0
    /\ \E v1 \in SpawnValues, v2 \in SpawnValues :
       \E i1 \in SpawnIndices(EmptyGrid) :
       \E i2 \in SpawnIndices(spawnTile(EmptyGrid, snd, i1, v1).cells) :
            SetupState(i1, v1, i2, v2, resetTerminal(snd))
    /\ restartsLeft' = restartsLeft - 1
    /\ last' = Obs("restart", TRUE, -1, NoPos, 1, NoPos)
    /\ UNCHANGED <<timers, storedBest, movesLeft>>

KeepGoingAfterWin ==
    /\ keepPlaying' = TRUE
    /\ last' = Obs("keepPlaying", TRUE, -1, NoPos, 0, NoPos)
    /\ UNCHANGED <<cells, score, bestScore, over, won, undoStack, undosUsed,
                   exchangesUsed, exchangeMode, exchangeFirst, exchangeSecond,
                   exchangePending, timers, snd, storedBest, movesLeft, restartsLeft>>

----------------------------------------------------------------------------
(* GameManager.prototype.move *)

\* a move that leaves exchange mode as it is
ModeKept(mode) == mode

\* lines 128-131: a displacing move cancels exchange mode
ModeAfterMove(mode) == IF mode THEN FALSE ELSE mode

\* a push that never drops the oldest snapshot
PushUndoNoEviction(stack, snap, used) == IF used < UndoCap THEN Append(stack, snap) ELSE stack

\* lines 132-136: keep the snapshot unless the undo cap has been hit
PushUndo(stack, snap, used) ==
    IF used < UndoCap
    THEN LET pushed == Append(stack, snap)
         IN  IF Len(pushed) > UndoCap THEN Tail(pushed) ELSE pushed
    ELSE stack

\* what move does after a displacing slide m, the spawn being sp
AfterSlide(d, stateBeforeMove, m, sp, isOver) ==
    /\ cells' = sp.cells
    /\ over' = (IF isOver THEN TRUE ELSE over)
    /\ snd' = (IF isOver THEN play("gameover", sp.snd) ELSE sp.snd)
    /\ last' = MoveObs(d, sp.at, cells, score, over, won)
    /\ score' = m.score
    /\ bestScore' = m.bestScore
    /\ storedBest' = m.stored
    /\ won' = m.won
    /\ exchangeMode' = ModeAfterMove(exchangeMode)
    /\ exchangeFirst' = (IF exchangeMode THEN NoPos ELSE exchangeFirst)
    /\ undoStack' = PushUndo(undoStack, stateBeforeMove, undosUsed)
    /\ movesLeft' = movesLeft - 1
    /\ UNCHANGED <<keepPlaying, undosUsed, exchangesUsed, exchangeSecond,
                   exchangePending, timers, restartsLeft>>

Spawned(d, stateBeforeMove, m, sp) ==
    AfterSlide(d, stateBeforeMove, m, sp, ~movesAvailable(sp.cells))

Slid(d, stateBeforeMove, m) ==
    IF ~m.moved
    THEN /\ cells' = m.cells
         /\ last' = Obs("move", FALSE, d, NoPos, 0, NoPos)
         /\ UNCHANGED <<score, bestScore, over, won, keepPlaying, undoStack,
                        undosUsed, exchangesUsed, exchangeMode, exchangeFirst,
                        exchangeSecond, exchangePending, timers, snd,
                        storedBest, movesLeft, restartsLeft>>
    ELSE /\ movesLeft > 0
         /\ \E i \in SpawnIndices(m.cells), v \in SpawnValues :
                Spawned(d, stateBeforeMove, m, spawnTile(m.cells, play("move", m.snd), i, v))

Move(d) ==
    IF isTerminated(over, won, keepPlaying)
    THEN /\ last' = Obs("move", FALSE, -1, NoPos, 0, NoPos)
         /\ UNCHANGED <<cells, score, bestScore, over, won, keepPlaying, undoStack,
                        undosUsed, exchangesUsed, exchangeMode, exchangeFirst,
                        exchangeSecond, exchangePending, timers, snd, storedBest,
                        movesLeft, restartsLeft>>
    ELSE Slid(d, snapshotState(cells, score, over, won),
              Slide(cells, score, bestScore, storedBest, won, snd, d))

----------------------------------------------------------------------------
(* GameManager.prototype.undo *)

Abs(n) == IF n < 0 THEN -n ELSE n

Manhattan(p, q) == Abs(p[1] - q[1]) + Abs(p[2] - q[2])

RECURSIVE TilesInOrder(_, _)
\* currentPool: the positions of the current tiles, in scan order
TilesInOrder(g, i) ==
    IF i > Len(ScanOrder) THEN <<>>
    ELSE IF g[ScanOrder[i]] # NoTile
         THEN <<ScanOrder[i]>> \o TilesInOrder(g, i + 1)
         ELSE TilesInOrder(g, i + 1)

\* the nearest unused pool entry of value v seen from cell p (first one on ties);
\* 0 when there is none
BestIdx(g, pool, used, p, v) ==
    LET cand == {pi \in 1 .. Len(pool) : pi \notin used /\ g[pool[pi]].value = v}
    IN  IF cand = {} THEN 0
        ELSE CHOOSE pi \in cand :
                \A pj \in cand :
                    \/ Manhattan(pool[pi], p) < Manhattan(pool[pj], p)
                    \/ (Manhattan(pool[pi], p) = Manhattan(pool[pj], p) /\ pi <= pj)

RECURSIVE RestoreLoop(_, _, _, _, _, _)
\* the restore loop of undo over the snapshot cells, in scan order
RestoreLoop(snapCells, g, pool, used, acc, i) ==
    IF i > Len(ScanOrder) THEN acc
    ELSE LET p == ScanOrder[i]
             v == snapCells[p]
         IN  IF v = 0 THEN RestoreLoop(snapCells, g, pool, used, acc, i + 1)
             ELSE LET b == BestIdx(g, pool, used, p, v)
                      match == b > 0 /\ Manhattan(pool[b], p) > 0
                      restoredTile == IF match THEN [Tile(p, v) EXCEPT !.prev = pool[b]]
                                      ELSE Tile(p, v)
                  IN  RestoreLoop(snapCells, g, pool,
                                  IF match THEN used \cup {b} ELSE used,
                                  [acc EXCEPT ![p] = restoredTile], i + 1)

\* an undo that leaves the grid as it is
RestoreGridKeepsGrid(snapCells, g) == prepareGrid(g)

\* the grid undo rebuilds from a snapshot, given the current grid
RestoreGrid(snapCells, g) ==
    RestoreLoop(snapCells, g, TilesInOrder(g, 1), {}, EmptyGrid, 1)

\* the observation of a successful undo: when it directly follows a displacing
\* move, it keeps that move's record of the game before it
UndoObs(prior) ==
    [Obs("undo", TRUE, -1, NoPos, 1, NoPos) EXCEPT
        !.from = IF prior.op = "move" /\ prior.accepted THEN prior.from ELSE NoFrom]

\* the guards of undo without the cap on the number of undos
CanUndoUncapped(o, w, k, stack, used) ==
    ~isTerminated(o, w, k) /\ ~(Len(stack) = 0)

\* the guards of undo (lines 243-244)
CanUndo(o, w, k, stack, used) ==
    ~isTerminated(o, w, k) /\ ~(Len(stack) = 0 \/ used >= UndoCap)

Undo ==
    IF ~CanUndo(over, won, keepPlaying, undoStack, undosUsed)
    THEN /\ last' = Obs("undo", FALSE, -1, NoPos, 0, NoPos)
         /\ UNCHANGED <<cells, score, bestScore, over, won, keepPlaying, undoStack,
                        undosUsed, exchangesUsed, exchangeMode, exchangeFirst,
                        exchangeSecond, exchangePending, timers, snd, storedBest,
                        movesLeft, restartsLeft>>
    ELSE LET snap == undoStack[Len(undoStack)]
         IN  /\ undoStack' = SubSeq(undoStack, 1, Len(undoStack) - 1)
             /\ undosUsed' = undosUsed + 1
             /\ cells' = RestoreGrid(snap.cells, cells)
             /\ score' = snap.score
             /\ over' = snap.over
             /\ won' = snap.won
             /\ snd' = play("undo", snd)
             /\ last' = UndoObs(last)
             /\ UNCHANGED <<bestScore, keepPlaying, exchangesUsed, exchangeMode,
                            exchangeFirst, exchangeSecond, exchangePending, timers,
                            storedBest, movesLeft, restartsLeft>>

----------------------------------------------------------------------------
(* Exchange: exchangeToggle, handleTileClick, the dwell callback, _doExchange *)

\* the guards of exchangeToggle without the cap on the number of exchanges
CanToggleUncapped(o, w, k, used, pending) ==
    ~isTerminated(o, w, k) /\ ~pending

\* the guards of exchangeToggle (lines 162-164)
CanToggle(o, w, k, used, pending) ==
    ~isTerminated(o, w, k) /\ ~(used >= ExchangeCap) /\ ~pending

ExchangeToggle ==
    IF ~CanToggle(over, won, keepPlaying, exchangesUsed, exchangePending)
    THEN /\ last' = Obs("exchangeToggle", FALSE, -1, NoPos, 0, NoPos)
         /\ UNCHANGED <<cells, score, bestScore, over, won, keepPlaying, undoStack,
                        undosUsed, exchangesUsed, exchangeMode, exchangeFirst,
                        exchangeSecond, exchangePending, timers, snd, storedBest,
                        movesLeft, restartsLeft>>
    ELSE /\ cells' = clearMergeState(cells)
         /\ exchangeMode' = ~exchangeMode
         /\ snd' = (IF exchangeMode THEN stopPowerUp(snd) ELSE snd)
         /\ exchangeFirst' = NoPos
         /\ exchangeSecond' = NoPos
         /\ last' = Obs("exchangeToggle", TRUE, -1, NoPos, 1, NoPos)
         /\ UNCHANGED <<score, bestScore, over, won, keepPlaying, undoStack, undosUsed,
                        exchangesUsed, exchangePending, timers, storedBest, movesLeft,
                        restartsLeft>>

\* guards that let a click on an empty cell through
ClickAcceptedAnyCell(mode, o, w, k, pending, tile) ==
    ~(~mode \/ isTerminated(o, w, k)) /\ ~pending

\* the guards of handleTileClick (lines 174-177)
ClickAccepted(mode, o, w, k, pending, tile) ==
    ~(~mode \/ isTerminated(o, w, k)) /\ ~pending /\ tile # NoTile

\* a "same tile" test that never recognises the selected tile
SameTileNever(first, pos) == FALSE

\* "same tile tapped again" (line 186)
SameTile(first, pos) == first[1] = pos[1] /\ first[2] = pos[2]

\* the observation of an ignored click tells the cell only when it is the
\* selected one
IgnoredClick(first, pos) ==
    Obs("tileClick", FALSE, -1, IF pos = first THEN pos ELSE NoPos, 0, NoPos)

HandleTileClick(pos) ==
    IF ~ClickAccepted(exchangeMode, over, won, keepPlaying, exchangePending,
                      cellContent(cells, pos))
    THEN /\ last' = IgnoredClick(exchangeFirst, pos)
         /\ UNCHANGED <<cells, score, bestScore, over, won, keepPlaying, undoStack,
                        undosUsed, exchangesUsed, exchangeMode, exchangeFirst,
                        exchangeSecond, exchangePending, timers, snd, storedBest,
                        movesLeft, restartsLeft>>
    ELSE IF exchangeFirst = NoPos
    THEN \* first tile selected
         /\ cells' = clearMergeState(cells)
         /\ exchangeFirst' = pos
         /\ snd' = play("swapSelect", snd)
         /\ last' = Obs("tileClick", TRUE, -1, pos, 1, NoPos)
         /\ UNCHANGED <<score, bestScore, over, won, keepPlaying, undoStack, undosUsed,
                        exchangesUsed, exchangeMode, exchangeSecond, exchangePending,
                        timers, storedBest, movesLeft, restartsLeft>>
    ELSE IF SameTile(exchangeFirst, pos)
    THEN \* same tile tapped again: deselect
         /\ exchangeFirst' = NoPos
         /\ snd' = stopPowerUp(snd)
         /\ last' = Obs("tileClick", TRUE, -1, pos, 1, NoPos)
         /\ UNCHANGED <<cells, score, bestScore, over, won, keepPlaying, undoStack,
                        undosUsed, exchangesUsed, exchangeMode, exchangeSecond,
                        exchangePending, timers, storedBest, movesLeft, restartsLeft>>
    ELSE \* second tile chosen: the dwell window starts
         /\ exchangeSecond' = pos
         /\ exchangePending' = TRUE
         /\ cells' = clearMergeState(cells)
         /\ snd' = play("swapConfirm", snd)
         /\ timers' = timers + 1
         /\ last' = Obs("tileClick", TRUE, -1, pos, 1, NoPos)
         /\ UNCHANGED <<score, bestScore, over, won, keepPlaying, undoStack, undosUsed,
                        exchangesUsed, exchangeMode, exchangeFirst, storedBest, movesLeft,
                        restartsLeft>>

\* _doExchange without the calls of updatePosition
doExchangeStale(g, pos1, pos2) ==
    [[g EXCEPT ![pos2] = g[pos1]] EXCEPT ![pos1] = g[pos2]]

\* _doExchange that moves the first tile only
doExchangeOneWay(g, pos1, pos2) ==
    [[g EXCEPT ![pos2] = IF g[pos1] = NoTile THEN NoTile
                         ELSE updatePosition(savePosition(g[pos1]), pos2)]
        EXCEPT ![pos1] = NoTile]

\* the grid part of _doExchange(pos1, pos2), both positions being non-null
doExchange(g, pos1, pos2) ==
    LET tile1 == g[pos1]
        tile2 == g[pos2]
        clean(t) == [t EXCEPT !.merged = FALSE, !.spawned = FALSE]
        moved1 == IF tile1 = NoTile THEN NoTile
                  ELSE updatePosition(savePosition(clean(tile1)), pos2)
        \* when pos1 = pos2 the second tile is the first one, already relocated
        t2 == IF pos1 = pos2 THEN moved1 ELSE tile2
        moved2 == IF t2 = NoTile THEN NoTile
                  ELSE updatePosition(savePosition(clean(t2)), pos1)
    IN  [[g EXCEPT ![pos2] = moved1] EXCEPT ![pos1] = moved2]

\* the callback handed to setTimeout(..., 620) by handleTileClick
DwellFire ==
    /\ timers > 0
    /\ timers' = timers - 1
    /\ IF exchangeFirst = NoPos \/ exchangeSecond = NoPos
       THEN \* _doExchange plays "swap", then reading pos.x of null throws:
            \* the rest of the callback does not run
            /\ snd' = play("swap", snd)
            /\ last' = Obs("dwell", FALSE, -1, NoPos, 0, NoPos)
            /\ UNCHANGED <<cells, score, bestScore, over, won, keepPlaying, undoStack,
                           undosUsed, exchangesUsed, exchangeMode, exchangeFirst,
                           exchangeSecond, exchangePending, storedBest, movesLeft,
                           restartsLeft>>
       ELSE /\ snd' = play("swap", snd)
            /\ cells' = doExchange(cells, exchangeFirst, exchangeSecond)
            /\ exchangeFirst' = NoPos
            /\ exchangeSecond' = NoPos
            /\ exchangePending' = FALSE
            /\ exchangeMode' = FALSE
            /\ exchangesUsed' = exchangesUsed + 1
            /\ last' = Obs("dwell", TRUE, -1, NoPos, 1, NoPos)
            /\ UNCHANGED <<score, bestScore, over, won, keepPlaying, undoStack,
                           undosUsed, storedBest, movesLeft, restartsLeft>>

ToggleMute ==
    /\ snd' = toggleMute(snd)
    /\ last' = Obs("toggleMute", TRUE, -1, NoPos, 0, NoPos)
    /\ UNCHANGED <<cells, score, bestScore, over, won, keepPlaying, undoStack,
                   undosUsed, exchangesUsed, exchangeMode, exchangeFirst, exchangeSecond,
                   exchangePending, timers, storedBest, movesLeft, restartsLeft>>

----------------------------------------------------------------------------
(* The game from its construction *)

Init ==
    /\ storedBest = 0
    /\ snd = NewSound(FALSE)
    /\ \E v1 \in SpawnValues, v2 \in SpawnValues :
       \E i1 \in SpawnIndices(EmptyGrid) :
       \E i2 \in SpawnIndices(spawnTile(EmptyGrid, snd, i1, v1).cells) :
            cells = spawnTile(spawnTile(EmptyGrid, snd, i1, v1).cells, snd, i2, v2).cells
    /\ score = 0
    /\ bestScore = 0
    /\ over = FALSE
    /\ won = FALSE
    /\ keepPlaying = FALSE
    /\ undoStack = <<>>
    /\ undosUsed = 0
    /\ exchangesUsed = 0
    /\ exchangeMode = FALSE
    /\ exchangeFirst = NoPos
    /\ exchangeSecond = NoPos
    /\ exchangePending = FALSE
    /\ timers = 0
    /\ last = Obs("setup", TRUE, -1, NoPos, 1, NoPos)
    /\ movesLeft = MaxMoves
    /\ restartsLeft = MaxRestarts
    /\ fx = NoEffects
    /\ store = NoStore
    /\ dom = NoOverlays

Next ==
    /\ ~Idle
    /\ \/ \E d \in Dirs : Move(d)
       \/ Undo
       \/ ExchangeToggle
       \/ \E pos \in Pos : HandleTileClick(pos)
       \/ DwellFire
       \/ Restart
    /\ UNCHANGED <<fx, store, dom>>

Spec == Init /\ [][Next]_vars

----------------------------------------------------------------------------
(* Games in progress: the boards on which a single move is examined *)

RECURSIVE Log2(_)
Log2(v) == IF v <= 1 THEN 0 ELSE 1 + Log2(v \div 2)

RECURSIVE SumOver(_, _)
\* the sum of f over the cells of the sequence of positions ps
SumOver(f, ps) == IF ps = <<>> THEN 0 ELSE f[Head(ps)] + SumOver(f, Tail(ps))

\* the score of a game that built every tile of the board from spawned 2s
ScoreOf(vals) == SumOver([p \in Pos |-> IF vals[p] = 0 THEN 0
                                       ELSE vals[p] * (Log2(vals[p]) - 1)], ScanOrder)

\* a grid holding the given values, its tiles carrying no animation flags
GridOf(vals) == Table([p \in Pos |-> IF vals[p] = 0 THEN NoTile ELSE Tile(p, vals[p])])

\* the cells of row k (isRow) or column k, from index 0 to Size - 1
LineCells(isRow, k) == [i \in 1 .. Size |-> IF isRow THEN <<i - 1, k>> ELSE <<k, i - 1>>]

LineIndex(isRow, p) == IF isRow THEN p[1] + 1 ELSE p[2] + 1
OnLine(isRow, k, p) == IF isRow THEN p[2] = k ELSE p[1] = k

Backgrounds == {"empty", "checker", "twos"}

Background(b, p) ==
    CASE b = "empty"   -> 0
      [] b = "checker" -> IF (p[1] + p[2]) % 2 = 0 THEN 32 ELSE 64
      [] b = "twos"    -> 2

\* what one line of the board may hold
RECURSIVE Pow2(_)
Pow2(e) == IF e = 0 THEN 1 ELSE 2 * Pow2(e - 1)

LineValues == {0} \cup {Pow2(e) : e \in 1 .. MaxExp}

LineContents ==
    [1 .. Size -> LineValues] \cup
    {<<1024, 1024, 0, 0>>, <<0, 1024, 0, 1024>>, <<1024, 1024, 1024, 1024>>,
     <<2, 1024, 1024, 2>>, <<1024, 2, 2, 1024>>}

\* a board: one line with the given content, the other cells from a background
BoardVals(isRow, k, content, b) ==
    Table([p \in Pos |-> IF OnLine(isRow, k, p) THEN content[LineIndex(isRow, p)]
                         ELSE Background(b, p)])

TileCount(vals) == Cardinality({p \in Pos : vals[p] # 0})

MoveBoards ==
    {v \in {BoardVals(isRow, k, content, b) :
                isRow \in BOOLEAN, k \in Coord, content \in LineContents, b \in Backgrounds} :
        TileCount(v) >= StartTiles}

\* a game in progress on the board vals
MidGameFx(vals, stack, used, xused, mode, first, stale, budget, restarts, f) ==
    /\ cells = GridOf(vals)
    /\ score = ScoreOf(vals)
    /\ bestScore = ScoreOf(vals)
    /\ storedBest = ScoreOf(vals)
    /\ over = FALSE
    /\ won = FALSE
    /\ keepPlaying = FALSE
    /\ undoStack = stack
    /\ undosUsed = used
    /\ exchangesUsed = xused
    /\ exchangeMode = mode
    /\ exchangeFirst = first
    /\ exchangeSecond = NoPos
    /\ exchangePending = FALSE
    /\ timers = stale
    /\ snd = NewSound(first # NoPos)
    /\ last = Obs("none", TRUE, -1, NoPos, 0, NoPos)
    /\ movesLeft = budget
    /\ restartsLeft = restarts
    /\ fx = f
    /\ store = NoStore
    /\ dom = NoOverlays

\* the same with no effect under way
MidGame(vals, stack, used, xused, mode, first, stale, budget, restarts) ==
    MidGameFx(vals, stack, used, xused, mode, first, stale, budget, restarts, NoEffects)

\* the first tile of a board in scan order
FirstTile(vals) == CHOOSE p \in Pos : vals[p] # 0 /\
                      \A q \in Pos : vals[q] # 0 =>
                          (q[1] > p[1] \/ (q[1] = p[1] /\ q[2] >= p[2]))

\* one move on a board of a game in progress, in or out of exchange mode
InitMove ==
    \E vals \in MoveBoards :
        \/ MidGame(vals, <<>>, 0, 0, FALSE, NoPos, 0, 1, 0)
        \/ /\ vals \in {BoardVals(TRUE, k, content, "empty") : k \in Coord, content \in LineContents}
           /\ MidGame(vals, <<>>, 0, 0, TRUE, FirstTile(vals), 0, 1, 0)

NextMove ==
    /\ ~Idle
    /\ movesLeft > 0
    /\ \E d \in Dirs : Move(d)
    /\ UNCHANGED <<fx, store, dom>>

SpecMove == InitMove /\ [][NextMove]_vars

----------------------------------------------------------------------------
(* Games in progress: the boards on which the exchange is examined *)

\* a board given by the values of its rows, top row (y = 0) first
BoardOfRows(rows) == Table([p \in Pos |-> rows[p[2] + 1][p[1] + 1]])

\* three successive boards of one game: the start, then a move to the left
\* (spawn 2 at (3,3)), then a move up that merges the two 2s of column 0
\* (spawn 2 at (0,3))
StartBoard == BoardOfRows(<<<<0, 2, 0, 0>>, <<0, 0, 0, 0>>, <<0, 0, 2, 0>>, <<0, 0, 0, 0>>>>)
AfterLeft == BoardOfRows(<<<<2, 0, 0, 0>>, <<0, 0, 0, 0>>, <<2, 0, 0, 0>>, <<0, 0, 0, 2>>>>)
AfterUp == BoardOfRows(<<<<4, 0, 0, 2>>, <<0, 0, 0, 0>>, <<0, 0, 0, 0>>, <<2, 0, 0, 0>>>>)

\* the snapshot a displacing move took on the board vals
SnapshotOf(vals) == [cells |-> vals, score |-> ScoreOf(vals), over |-> FALSE, won |-> FALSE]

\* the boards of that game together with the undo history the moves left
History ==
    {[vals |-> AfterUp, stack |-> <<SnapshotOf(StartBoard), SnapshotOf(AfterLeft)>>],
     [vals |-> AfterLeft, stack |-> <<SnapshotOf(StartBoard)>>]}

\* a game in progress with exchanges left or used up, possibly with dwell
\* callbacks left over from the game before; the exploration follows either
\* one displacing move or the restarts
InitExchange ==
    \E h \in History, xused \in 0 .. ExchangeCap, stale \in 0 .. MaxStale,
       withMove \in BOOLEAN :
        MidGame(h.vals, h.stack, 0, xused, FALSE, NoPos, stale,
                IF withMove THEN 1 ELSE 0, IF withMove THEN 0 ELSE MaxRestarts)

NextExchange ==
    /\ ~Idle
    /\ \/ \E d \in Dirs : Move(d)
       \/ Undo
       \/ ExchangeToggle
       \/ \E pos \in Pos : HandleTileClick(pos)
       \/ DwellFire
       \/ Restart
    /\ UNCHANGED <<fx, store, dom>>

SpecExchange == InitExchange /\ [][NextExchange]_vars

----------------------------------------------------------------------------
(* Games in progress: the boards on which undo is examined *)

\* a nearly full board on which a move to the left ends the game when a 4 is
\* spawned, and the board it came from by a move down (spawn 2 at (3,0))
NearlyFull ==
    BoardOfRows(<<<<0, 2, 4, 2>>, <<64, 32, 64, 32>>, <<32, 64, 32, 64>>, <<64, 32, 64, 32>>>>)
BeforeNearlyFull ==
    BoardOfRows(<<<<64, 2, 4, 0>>, <<0, 32, 64, 32>>, <<32, 64, 32, 64>>, <<64, 32, 64, 32>>>>)

\* a board on which a move to the left or to the right makes 2048, and the
\* board it came from by a move up (spawn 2 at (2,0))
NearlyWon ==
    BoardOfRows(<<<<1024, 1024, 2, 0>>, <<0, 0, 0, 0>>, <<0, 0, 0, 0>>, <<0, 0, 0, 0>>>>)
BeforeNearlyWon ==
    BoardOfRows(<<<<1024, 0, 0, 0>>, <<0, 1024, 0, 0>>, <<0, 0, 0, 0>>, <<0, 0, 0, 0>>>>)

\* boards, undo histories and numbers of undos used that belong together
UndoGames ==
    {[vals |-> h.vals, stack |-> h.stack, used |-> u] : h \in History, u \in 0 .. 1}
    \cup {[vals |-> AfterLeft, stack |-> <<SnapshotOf(StartBoard)>>, used |-> UndoCap]}
    \cup {[vals |-> StartBoard, stack |-> <<>>, used |-> u] : u \in 0 .. UndoCap}
    \cup {[vals |-> NearlyFull, stack |-> <<SnapshotOf(BeforeNearlyFull)>>, used |-> u] :
              u \in 0 .. 1}
    \cup {[vals |-> NearlyWon, stack |-> <<SnapshotOf(BeforeNearlyWon)>>, used |-> u] :
              u \in 0 .. 1}

InitUndo ==
    \E g \in UndoGames :
        MidGame(g.vals, g.stack, g.used, 0, FALSE, NoPos, 0, MaxMoves, MaxRestarts)

NextUndo ==
    /\ ~Idle
    /\ \/ \E d \in Dirs : Move(d)
       \/ Undo
       \/ Restart
    /\ UNCHANGED <<fx, store, dom>>

SpecUndo == InitUndo /\ [][NextUndo]_vars

----------------------------------------------------------------------------
(* C1: a move that displaces no tile (moved = false) leaves the cell values,
   score, bestScore, undo stack, undosUsed and the exchange state unchanged,
   spawns no tile and issues no render. *)
C1_NoopMoveChangesNothing ==
    [][(last'.op = "move" /\ ~last'.accepted) =>
          /\ Values(cells') = Values(cells)
          /\ score' = score
          /\ bestScore' = bestScore
          /\ undoStack' = undoStack
          /\ undosUsed' = undosUsed
          /\ exchangesUsed' = exchangesUsed
          /\ exchangeMode' = exchangeMode
          /\ exchangeFirst' = exchangeFirst
          /\ exchangeSecond' = exchangeSecond
          /\ exchangePending' = exchangePending
          /\ last'.spawnedAt = NoPos
          /\ last'.renders = 0]_vars

\* a move was made in exchange mode with a tile selected and displaced nothing
C1_Witness ==
    /\ last.op = "move" /\ ~last.accepted
    /\ exchangeMode /\ exchangeFirst # NoPos
    /\ ~isTerminated(over, won, keepPlaying)

----------------------------------------------------------------------------
(* The slide/merge phase seen from outside: lines, oriented toward the target *)

\* the cells of line k for direction d, the cell at the target edge first
TargetLine(d, k) ==
    CASE d = 3 -> [i \in 1 .. Size |-> <<i - 1, k>>]
      [] d = 1 -> [i \in 1 .. Size |-> <<Size - i, k>>]
      [] d = 0 -> [i \in 1 .. Size |-> <<k, i - 1>>]
      [] d = 2 -> [i \in 1 .. Size |-> <<k, Size - i>>]

\* a displacing move has just been made
Displaced == last'.op = "move" /\ last'.accepted

\* the cell values after the slide/merge phase: the grid after the move without
\* the tile the move spawned
SlidValues == [p \in Pos |-> IF p = last'.spawnedAt THEN 0 ELSE cells'[p].value]

\* the tiles the slide/merge phase created by a merge
MergedAt(p) == p # last'.spawnedAt /\ cells'[p] # NoTile /\ cells'[p].merged

\* number of cells of the line (a sequence of positions) that satisfy the test
Count(line, Test(_)) == Cardinality({i \in 1 .. Len(line) : Test(line[i])})

(* C2: within one move a tile created by a merge is never merged again: in
   every line, the tiles after the slide/merge phase are the tiles before the
   move, each merged tile standing for exactly two tiles of half its value. *)
C2_NoDoubleMerge ==
    [][Displaced =>
        \A k \in Coord :
            LET line == TargetLine(last'.dir, k)
                Before(v) == LET T(p) == cells[p].value = v IN Count(line, T)
                Kept(v) == LET T(p) == SlidValues[p] = v /\ ~MergedAt(p) IN Count(line, T)
                Made(v) == LET T(p) == SlidValues[p] = v /\ MergedAt(p) IN Count(line, T)
            IN  \A v \in {cells[line[i]].value : i \in 1 .. Size} \ {0} :
                    /\ Before(v) = Kept(v) + 2 * Made(2 * v)
                    /\ Made(v) > 0 => Before(v \div 2) >= 2]_vars

\* a move merged two tiles next to a third tile of the doubled value
C2_Witness ==
    /\ last.op = "move" /\ last.accepted
    /\ \E p \in Pos, d \in Dirs :
          LET q == <<p[1] + getVector(d)[1], p[2] + getVector(d)[2]>>
          IN  /\ cells[p] # NoTile /\ cells[p].merged
              /\ withinBounds(q) /\ cells[q] # NoTile /\ ~cells[q].merged
              /\ q # last.spawnedAt
              /\ cells[q].value = cells[p].value

----------------------------------------------------------------------------
(* The line-by-line reference of the slide/merge phase *)

RECURSIVE Compress(_)
\* the tiles of a line in their order, the empty cells dropped
Compress(line) ==
    IF line = <<>> THEN <<>>
    ELSE IF Head(line) = 0 THEN Compress(Tail(line))
    ELSE <<Head(line)>> \o Compress(Tail(line))

RECURSIVE MergePairs(_)
\* equal neighbours merged once, pairing from the target edge
MergePairs(tiles) ==
    IF Len(tiles) < 2 THEN tiles
    ELSE IF tiles[1] = tiles[2]
         THEN <<2 * tiles[1]>> \o MergePairs(Tail(Tail(tiles)))
         ELSE <<tiles[1]>> \o MergePairs(Tail(tiles))

\* the reference result of a line whose first cell lies at the target edge
RefLine(line) ==
    LET packed == MergePairs(Compress(line))
    IN  [i \in 1 .. Len(line) |-> IF i <= Len(packed) THEN packed[i] ELSE 0]

(* C3: the grid after the slide/merge phase of a move (before the spawn) equals
   the line-by-line reference: in each row/column the tiles are packed against
   the target edge in their order and equal neighbours are merged once,
   pairing from the target edge first. *)
C3_SlideMatchesReference ==
    [][(last'.op = "move" /\ last'.dir \in Dirs) =>
        \A k \in Coord :
            LET line == TargetLine(last'.dir, k)
            IN  [i \in 1 .. Size |-> SlidValues[line[i]]]
                    = RefLine([i \in 1 .. Size |-> cells[line[i]].value])]_vars

\* a move toward the right or the bottom merged a line of four equal tiles
\* into two tiles at the target edge
C3_Witness ==
    /\ last.op = "move" /\ last.accepted /\ last.dir \in {1, 2}
    /\ \E k \in Coord :
          LET line == TargetLine(last.dir, k)
          IN  /\ cells[line[1]].merged /\ cells[line[2]].merged
              /\ cells[line[1]].value = 4 /\ cells[line[2]].value = 4
              /\ \A i \in 3 .. Size : cells[line[i]] = NoTile \/ line[i] = last.spawnedAt

----------------------------------------------------------------------------
(* Sums of tile values *)

TileSum(g) == SumOver([p \in Pos |-> g[p].value], ScanOrder)

\* the sum of the values of the tiles the move created by merging
MergedSum == SumOver([p \in Pos |-> IF MergedAt(p) THEN cells'[p].value ELSE 0], ScanOrder)

SpawnedValue == IF last'.spawnedAt = NoPos THEN 0 ELSE cells'[last'.spawnedAt].value

(* C4 as stated: after a displacing move the sum of all tile values equals the
   sum before plus the value of the new merges plus the value of the spawned
   tile. *)
C4_Original ==
    [][Displaced => TileSum(cells') = TileSum(cells) + MergedSum + SpawnedValue]_vars

(* C4 as amended: after a displacing move the sum of all tile values equals the
   sum before plus the value of the spawned tile; merges leave the sum as it
   was, every merged tile having the value of its two inputs together. *)
C4_SumGrowsBySpawn ==
    [][Displaced =>
        /\ last'.spawnedAt # NoPos
        /\ SpawnedValue \in SpawnValues
        /\ TileSum(cells') = TileSum(cells) + SpawnedValue]_vars

\* a displacing move merged at least one pair
C4_Witness ==
    /\ last.op = "move" /\ last.accepted
    /\ \E p \in Pos : cells[p] # NoTile /\ cells[p].merged

----------------------------------------------------------------------------
(* C5: after every operation and under every interleaving of the dwell timer
   with the inputs, each tile stored at grid[x][y] has the position (x, y), and
   no two tiles of the grid have the same position. *)
C5_TilesKnowTheirCell ==
    /\ \A p \in Pos : cells[p] # NoTile => TilePos(cells[p]) = p
    /\ \A p, q \in Pos :
          (p # q /\ cells[p] # NoTile /\ cells[q] # NoTile)
              => TilePos(cells[p]) # TilePos(cells[q])

\* an exchange was committed after an undo emptied one of the two selected
\* cells: the tile moved into a cell and left its own cell empty
C5_Witness ==
    /\ last.op = "dwell" /\ last.accepted
    /\ undosUsed > 0
    /\ \E p \in Pos :
          /\ cells[p] # NoTile /\ cells[p].prev # NoPos
          /\ cells[cells[p].prev] = NoTile

----------------------------------------------------------------------------
(* Undo *)

\* an undo call made right after a displacing move, fewer than two undos
\* having been used
MoveThenUndo ==
    /\ last.op = "move" /\ last.accepted
    /\ undosUsed < UndoCap
    /\ last'.op = "undo"

\* the cell values, the score and the flags are those before the move
Restored ==
    /\ Values(cells') = last.from.cells
    /\ score' = last.from.score
    /\ over' = last.from.over
    /\ won' = last.from.won

(* C6: between two restarts at most two undo calls succeed: undosUsed never
   exceeds 2, every successful undo counts, and once two undos have been
   performed every further undo call leaves the whole game state unchanged,
   whatever moves are made in between. *)
C6_UndoCapped ==
    /\ [](undosUsed <= UndoCap)
    /\ [][((last'.op = "undo" /\ last'.accepted)
               => (undosUsed < UndoCap /\ undosUsed' = undosUsed + 1))
           /\
           ((last'.op = "undo" /\ undosUsed = UndoCap)
               => (~last'.accepted /\ UNCHANGED <<gameVars, timers, snd, storedBest>>))]_vars

\* an undo call was refused although a snapshot was there and the game was
\* running: both undos had been used
C6_Witness ==
    /\ last.op = "undo" /\ ~last.accepted
    /\ undosUsed = UndoCap
    /\ Len(undoStack) > 0
    /\ ~isTerminated(over, won, keepPlaying)

(* C7 as stated: from a non-terminated state with undosUsed < 2, a displacing
   move followed immediately by undo restores the cell values, the score and
   the over and won flags that held before the move. *)
C7_Original ==
    [][MoveThenUndo => Restored]_vars

(* C7 as amended: from a non-terminated state with undosUsed < 2, a displacing
   move that does not end the game (neither game over nor 2048 reached),
   followed immediately by undo, restores the cell values, the score and the
   over and won flags that held before the move. *)
C7_UndoRestoresMove ==
    [][(MoveThenUndo /\ ~isTerminated(over, won, keepPlaying))
          => (last'.accepted /\ Restored)]_vars

\* an undo directly after a move with a merge brought the game back: the best
\* score still shows the merge, the score does not
C7_Witness ==
    /\ last.op = "undo" /\ last.accepted
    /\ last.from.score # -1
    /\ Values(cells) = last.from.cells
    /\ score = last.from.score
    /\ bestScore > score

----------------------------------------------------------------------------
(* Exchange *)

\* the dwell callback has just committed the pending exchange
Commit == last'.op = "dwell" /\ last'.accepted

(* C8: when a pending exchange commits, the two selected cells trade their
   contents: each holds the value the other held before, every other cell is
   unchanged, and so are score, undo stack, undosUsed and the over/won flags. *)
C8_CommitSwapsTwoCells ==
    [][Commit =>
        /\ cells'[exchangeFirst].value = cells[exchangeSecond].value
        /\ cells'[exchangeSecond].value = cells[exchangeFirst].value
        /\ \A p \in Pos \ {exchangeFirst, exchangeSecond} : cells'[p] = cells[p]
        /\ UNCHANGED <<score, undoStack, undosUsed, over, won>>]_vars

\* two tiles of different values have just traded places
C8_Witness ==
    /\ last.op = "dwell" /\ last.accepted
    /\ \E p, q \in Pos :
          /\ p # q /\ cells[p] # NoTile /\ cells[q] # NoTile
          /\ cells[p].prev = q /\ cells[q].prev = p
          /\ cells[p].value # cells[q].value

(* C9: between two restarts at most two exchanges are committed: exchangesUsed
   never exceeds 2, and once it equals 2 exchangeToggle does not enter exchange
   mode. *)
C9_ExchangeCapped ==
    /\ [](exchangesUsed <= ExchangeCap)
    /\ [][(last'.op = "exchangeToggle" /\ exchangesUsed = ExchangeCap)
              => (~last'.accepted /\ ~exchangeMode')]_vars

\* exchangeToggle was refused in a running game with no exchange pending:
\* both exchanges had been used
C9_Witness ==
    /\ last.op = "exchangeToggle" /\ ~last.accepted
    /\ exchangesUsed = ExchangeCap
    /\ ~exchangePending
    /\ ~isTerminated(over, won, keepPlaying)

\* a tileClick on the cell of the first selected tile, in exchange mode
SameCellClick ==
    /\ exchangeMode /\ exchangeFirst # NoPos
    /\ last'.op = "tileClick" /\ last'.pos = exchangeFirst

\* the selection is cleared, no dwell window starts, no grid cell changes and
\* exchangesUsed stays
Deselected ==
    /\ exchangeFirst' = NoPos
    /\ ~exchangePending' /\ timers' = timers
    /\ Values(cells') = Values(cells)
    /\ exchangesUsed' = exchangesUsed

(* C10 as stated: in exchange mode with a first tile selected, a tileClick on
   that same cell clears the selection without starting the dwell window,
   without changing any grid cell and without incrementing exchangesUsed. *)
C10_Original ==
    [][SameCellClick => Deselected]_vars

(* C10 as amended: in exchange mode with a first tile selected, no exchange
   pending and a tile still on the selected cell, a tileClick on that same cell
   clears the selection without starting the dwell window, without changing
   any grid cell and without incrementing exchangesUsed; the game stays in
   exchange mode. *)
C10_SameCellDeselects ==
    [][(SameCellClick /\ ~exchangePending /\ cells[exchangeFirst] # NoTile)
          => (Deselected /\ last'.accepted /\ exchangeMode' /\ exchangeSecond' = NoPos)]_vars

\* the selected tile was tapped again and is no longer selected
C10_Witness ==
    /\ last.op = "tileClick" /\ last.accepted /\ last.pos # NoPos
    /\ exchangeMode /\ exchangeFirst = NoPos /\ exchangeSecond = NoPos
    /\ ~exchangePending
    /\ cells[last.pos] # NoTile

----------------------------------------------------------------------------
(* The dwell window *)

(* C11: while a swap is pending, move, undo, exchangeToggle and tileClick leave
   the grid, the score, the undo stack, undosUsed, exchangesUsed and the two
   selected cells unchanged. *)
C11_PendingLocksInput ==
    [][(exchangePending /\ last'.op \in {"move", "undo", "exchangeToggle", "tileClick"})
          => /\ Values(cells') = Values(cells)
             /\ UNCHANGED <<score, undoStack, undosUsed, exchangesUsed,
                            exchangeFirst, exchangeSecond>>]_vars

(* C12: once the second tile has been selected, whatever inputs arrive before
   the dwell timer fires, the callback swaps the two selected cells, increments
   exchangesUsed by one and resets exchangePending, exchangeMode and both
   selections. *)
C12_DwellAlwaysCommits ==
    [][(exchangePending /\ last'.op = "dwell")
          => /\ last'.accepted
             /\ exchangesUsed' = exchangesUsed + 1
             /\ ~exchangePending' /\ ~exchangeMode'
             /\ exchangeFirst' = NoPos /\ exchangeSecond' = NoPos]_vars

----------------------------------------------------------------------------
(* SpaceEffects: tier resolution *)

MaxTierInput == 80       \* tier resolution is examined for the values -2 .. MaxTierInput

\* the keys of TIERS with the number of rings each tier configures
TIERS ==
    (2 :> 0) @@ (4 :> 1) @@ (8 :> 1) @@ (16 :> 1) @@ (32 :> 2) @@ (64 :> 2) @@
    (128 :> 3) @@ (256 :> 3) @@ (512 :> 3) @@ (1024 :> 4) @@ (2048 :> 5)

\* TIERS[key] of a key that is not configured
Undefined == -1

\* the keys in the order getTier tries them
TierKeys == <<2048, 1024, 512, 256, 128, 64, 32, 16, 8, 4, 2>>

\* a lookup order that starts with the smallest key
TierKeysAscending(value, i) ==
    LET keys == <<2, 4, 8, 16, 32, 64, 128, 256, 512, 1024, 2048>>
        hits == {j \in 1 .. Len(keys) : value >= keys[j]}
    IN  IF hits = {} THEN [key |-> 2, cfg |-> TIERS[2]]
        ELSE LET j == CHOOSE h \in hits : \A g \in hits : h <= g
             IN  [key |-> keys[j], cfg |-> TIERS[keys[j]]]

RECURSIVE TierFrom(_, _)
\* the loop of getTier from index i on
TierFrom(value, i) ==
    IF i > Len(TierKeys) THEN [key |-> 2, cfg |-> TIERS[2]]
    ELSE IF value >= TierKeys[i]
         THEN [key |-> TierKeys[i],
               cfg |-> IF TierKeys[i] \in DOMAIN TIERS THEN TIERS[TierKeys[i]] ELSE Undefined]
         ELSE TierFrom(value, i + 1)

getTier(value) == TierFrom(value, 1)

\* the values tier resolution is examined for: small ones, the neighbourhood
\* of every configured key, and values beyond the largest key
TierInputs ==
    (-2 .. MaxTierInput)
    \cup UNION {{k - 1, k, k + 1} : k \in DOMAIN TIERS}
    \cup {3000, 4096, 131072}

\* the observation of one tier resolution
TierObs(value, t) ==
    [op |-> "getTier", accepted |-> TRUE, dir |-> -1, pos |-> NoPos, renders |-> 0,
     spawnedAt |-> NoPos, from |-> NoFrom, value |-> value, tier |-> t]

\* the tier resolution of trigger(value, anchor): var t = getTier(tileValue)
ResolveTier(value) ==
    /\ last' = TierObs(value, getTier(value))
    /\ UNCHANGED <<gameVars, timers, snd, storedBest, movesLeft, restartsLeft>>

InitTier == MidGame(StartBoard, <<>>, 0, 0, FALSE, NoPos, 0, 0, 0)

NextTier ==
    /\ \E value \in TierInputs : ResolveTier(value)
    /\ UNCHANGED <<fx, store, dom>>

SpecTier == InitTier /\ [][NextTier]_vars

(* C18: for every value v, the tier is the largest configured key <= v, and
   the smallest tier (2) when no key is <= v; the configuration of that key
   exists also for values that are not configured keys (3000 resolves to 2048,
   3 resolves to 2). *)
C18_TierIsLargestKeyBelow ==
    last.op = "getTier" =>
        LET below == {k \in DOMAIN TIERS : k <= last.value}
        IN  /\ last.tier.key \in DOMAIN TIERS
            /\ last.tier.cfg = TIERS[last.tier.key]
            /\ last.tier.cfg # Undefined
            /\ below = {} => last.tier.key = 2
            /\ below # {} => (last.tier.key \in below /\ \A k \in below : k <= last.tier.key)
            /\ last.value = 3000 => last.tier.key = 2048
            /\ last.value = 3 => last.tier.key = 2

\* the tier of 3000, a value that is no configured key, has been resolved
C18_Witness ==
    /\ last.op = "getTier"
    /\ last.value = 3000
    /\ last.tier.key = 2048

----------------------------------------------------------------------------
(* The spawn of a displacing move *)

\* the reference value of cell p after the slide/merge phase of a move toward d
RefAt(d, p) ==
    LET k == CHOOSE j \in Coord : \E i \in 1 .. Size : TargetLine(d, j)[i] = p
        line == TargetLine(d, k)
        i == CHOOSE j \in 1 .. Size : line[j] = p
    IN  RefLine([j \in 1 .. Size |-> cells[line[j]].value])[i]

\* the cells the reference leaves empty after the slide/merge phase
RefEmpty(d) == {p \in Pos : RefAt(d, p) = 0}

(* C15: every move that displaces at least one tile adds exactly one new tile,
   of value 2 or 4, in a cell that was empty after the slide/merge phase; at
   least one empty cell exists at that point, so the spawn is never skipped. *)
C15_DisplacingMoveSpawnsOne ==
    [][Displaced =>
        LET at == last'.spawnedAt
            d == last'.dir
        IN  /\ RefEmpty(d) # {}
            /\ at \in RefEmpty(d)
            /\ cells'[at] # NoTile
            /\ cells'[at].value \in SpawnValues
            /\ cells'[at].spawned /\ ~cells'[at].merged
            /\ \A p \in Pos \ {at} :
                  /\ cells'[p].value = RefAt(d, p)
                  /\ cells'[p] # NoTile => ~cells'[p].spawned
            /\ TileCount(Values(cells')) = Cardinality(Pos \ RefEmpty(d)) + 1]_vars

\* a displacing move without a merge on a board that had a single empty cell:
\* the spawn took the only cell the slide left empty
C15_Witness ==
    /\ last.op = "move" /\ last.accepted
    /\ last.spawnedAt # NoPos
    /\ TileCount(last.from.cells) = Size * Size - 1
    /\ TileCount(Values(cells)) = Size * Size

----------------------------------------------------------------------------
(* The end of the game *)

\* no empty cell and no two orthogonally adjacent tiles of equal value
Stuck(vals) ==
    /\ \A p \in Pos : vals[p] # 0
    /\ \A x \in 0 .. Size - 2, y \in Coord : vals[<<x, y>>] # vals[<<x + 1, y>>]
    /\ \A x \in Coord, y \in 0 .. Size - 2 : vals[<<x, y>>] # vals[<<x, y + 1>>]

(* C16: after every move that displaces a tile, over becomes true exactly when,
   after the spawn, the grid has no empty cell and no two orthogonally adjacent
   tiles of equal value; otherwise over stays false. *)
C16_OverIffStuck ==
    [][Displaced =>
        /\ ~over
        /\ over' <=> Stuck(Values(cells'))]_vars

\* a displacing move filled the board and ended the game
C16_Witness ==
    /\ last.op = "move" /\ last.accepted
    /\ over
    /\ ~last.from.over
    /\ Stuck(Values(cells))

\* a displacing move filled the board and left two equal neighbours
C16_WitnessFull ==
    /\ last.op = "move" /\ last.accepted
    /\ ~over
    /\ \A p \in Pos : cells[p] # NoTile

----------------------------------------------------------------------------
(* Games in progress: the boards on which the end of the game is examined *)

\* a board on which a move to the left or to the right makes 2048 twice, and
\* the board it came from by a move to the left (spawn 2 at (3,3))
TwoPairs ==
    BoardOfRows(<<<<1024, 1024, 0, 0>>, <<0, 0, 0, 0>>, <<1024, 1024, 0, 0>>, <<0, 0, 0, 2>>>>)
BeforeTwoPairs ==
    BoardOfRows(<<<<0, 1024, 0, 1024>>, <<0, 0, 0, 0>>, <<0, 1024, 1024, 0>>, <<0, 0, 0, 0>>>>)

\* a board on which a move to the left or to the right makes 2048 in row 0 and
\* a later move up or down makes it again in the column the two other 1024s
\* share, and the board it came from by a move to the right (spawn 2 at (0,1))
PairAndPair ==
    BoardOfRows(<<<<1024, 1024, 0, 0>>, <<2, 0, 0, 0>>, <<0, 0, 0, 1024>>, <<0, 0, 0, 1024>>>>)
BeforePairAndPair ==
    BoardOfRows(<<<<1024, 1024, 0, 0>>, <<0, 0, 0, 0>>, <<0, 0, 1024, 0>>, <<0, 1024, 0, 0>>>>)

\* games that can end, by a win or by a full board, and games with the budgets
\* used up; moves tells how far the exploration follows each game
EndGames ==
    {[vals |-> NearlyWon, stack |-> <<SnapshotOf(BeforeNearlyWon)>>, used |-> 0,
      xused |-> ExchangeCap - 1, moves |-> 1],
     [vals |-> TwoPairs, stack |-> <<SnapshotOf(BeforeTwoPairs)>>, used |-> 1,
      xused |-> ExchangeCap, moves |-> 1],
     [vals |-> PairAndPair, stack |-> <<SnapshotOf(BeforePairAndPair)>>, used |-> UndoCap,
      xused |-> ExchangeCap, moves |-> 2],
     [vals |-> NearlyFull, stack |-> <<SnapshotOf(BeforeNearlyFull)>>, used |-> 0,
      xused |-> ExchangeCap, moves |-> 1],
     [vals |-> AfterLeft, stack |-> <<SnapshotOf(StartBoard)>>, used |-> UndoCap,
      xused |-> ExchangeCap, moves |-> 0],
     [vals |-> StartBoard, stack |-> <<>>, used |-> 0,
      xused |-> ExchangeCap - 1, moves |-> 0]}

\* the game on NearlyWon right after the move to the left that won it, the
\* spawn being (i, v); the exploration follows its restarts
WonGame(i, v) ==
    LET g == GridOf(NearlyWon)
        sc == ScoreOf(NearlyWon)
        m == Slide(g, sc, sc, sc, FALSE, NewSound(FALSE), 3)
        sp == spawnTile(m.cells, play("move", m.snd), i, v)
    IN  /\ cells = sp.cells
        /\ score = m.score
        /\ bestScore = m.bestScore
        /\ storedBest = m.stored
        /\ over = FALSE
        /\ won = m.won
        /\ keepPlaying = FALSE
        /\ undoStack = PushUndo(<<SnapshotOf(BeforeNearlyWon)>>,
                                snapshotState(g, sc, FALSE, FALSE), 0)
        /\ undosUsed = 0
        /\ exchangesUsed = 0
        /\ exchangeMode = FALSE
        /\ exchangeFirst = NoPos
        /\ exchangeSecond = NoPos
        /\ exchangePending = FALSE
        /\ timers = 0
        /\ snd = sp.snd
        /\ last = MoveObs(3, sp.at, g, sc, FALSE, FALSE)
        /\ movesLeft = 0
        /\ restartsLeft = MaxRestarts
        /\ fx = NoEffects
        /\ store = NoStore
        /\ dom = NoOverlays

InitEnd ==
    \/ \E g \in EndGames :
          MidGame(g.vals, g.stack, g.used, g.xused, FALSE, NoPos, 0, g.moves, 0)
    \/ \E v \in SpawnValues : WonGame(1, v)

\* the inputs of a game and its restart; the dwell callbacks are left to the
\* exploration of the exchange
NextEnd ==
    /\ ~Idle
    /\ \/ \E d \in Dirs : Move(d)
       \/ Undo
       \/ ExchangeToggle
       \/ \E pos \in Pos : HandleTileClick(pos)
       \/ Restart
       \/ KeepGoingAfterWin
       \/ ToggleMute
    /\ UNCHANGED <<fx, store, dom>>

SpecEnd == InitEnd /\ [][NextEnd]_vars

----------------------------------------------------------------------------
(* The won game *)

\* the inputs the game refuses once it is terminated
GameInputs == {"move", "undo", "exchangeToggle", "tileClick"}

\* the handler that ran refused its input and left the game and the sound as
\* they were
Refused ==
    /\ ~last'.accepted
    /\ last'.renders = 0
    /\ UNCHANGED <<gameVars, timers, snd, storedBest>>

(* C13: a move in which a merge produces a tile of value 2048 sets won, and
   unless keep-playing has been chosen the game is terminated from then on:
   every later move, undo, exchangeToggle and tileClick is rejected until
   restart. *)
C13_WinTerminates ==
    [][/\ (Displaced /\ \E p \in Pos : MergedAt(p) /\ cells'[p].value = WinValue) => won'
       /\ (won /\ ~keepPlaying /\ last'.op \in GameInputs) => Refused
       /\ (won /\ ~keepPlaying /\ last'.op \notin {"restart", "keepPlaying"})
              => (won' /\ ~keepPlaying')]_vars

\* in a won game that was not continued an undo was refused although a
\* snapshot and an undo were left
C13_Witness ==
    /\ won /\ ~keepPlaying /\ ~over
    /\ last.op = "undo" /\ ~last.accepted
    /\ Len(undoStack) > 0 /\ undosUsed < UndoCap
    /\ \E p \in Pos : cells[p] # NoTile /\ cells[p].value = WinValue /\ cells[p].merged

----------------------------------------------------------------------------
(* The terminal sounds *)

\* the tiles of value 2048 the last move made
NewWinTiles == {p \in Pos : cells[p] # NoTile /\ cells[p].merged /\ cells[p].value = WinValue}

(* C14: between one restart (resetTerminal) and the next the win sound is
   realised at most once and the gameover sound at most once: after the first
   unmuted play("win") or play("gameover") further calls with that name do
   nothing, also when several merges reach 2048 in the same move or later in
   the same game. *)
C14_TerminalSoundsOnce ==
    /\ snd.wins <= 1
    /\ snd.gameovers <= 1

\* one unmuted move made two tiles of 2048 and the win sound ran once
C14_Witness ==
    /\ last.op = "move" /\ last.accepted
    /\ ~snd.muted
    /\ Cardinality(NewWinTiles) = 2
    /\ snd.wins = 1

\* a game won and continued made 2048 again, the win sound still having run once
C14_WitnessLater ==
    /\ last.op = "move" /\ last.accepted
    /\ ~snd.muted /\ keepPlaying
    /\ last.from.won
    /\ Cardinality(NewWinTiles) = 1
    /\ snd.wins = 1

----------------------------------------------------------------------------
(* Inputs the game refuses *)

(* C17: invalid or out-of-budget actions are refused with no state change: in
   a terminated state move, undo, exchangeToggle and tileClick change nothing;
   undo with an empty stack or with undosUsed = 2 changes nothing;
   exchangeToggle with exchangesUsed = 2 changes nothing; tileClick outside
   exchange mode or on an empty cell changes nothing. *)
C17_InvalidInputRefused ==
    [][/\ (isTerminated(over, won, keepPlaying) /\ last'.op \in GameInputs) => Refused
       /\ (last'.op = "undo" /\ (Len(undoStack) = 0 \/ undosUsed = UndoCap)) => Refused
       /\ (last'.op = "exchangeToggle" /\ exchangesUsed = ExchangeCap) => Refused
       /\ (last'.op = "tileClick" /\ ~exchangeMode) => Refused
       /\ (last'.op = "tileClick" /\ ~last'.accepted) => Refused
       /\ (last'.op = "tileClick" /\ last'.accepted) => cells[last'.pos] # NoTile]_vars

\* a click was refused in exchange mode, in a game that goes on and has no swap
\* pending: it was a click on an empty cell
C17_Witness ==
    /\ last.op = "tileClick" /\ ~last.accepted
    /\ exchangeMode /\ ~exchangePending
    /\ ~isTerminated(over, won, keepPlaying)

\* an undo was refused in a game that goes on with undosUsed at its cap and a
\* snapshot left
C17_WitnessUndo ==
    /\ last.op = "undo" /\ ~last.accepted
    /\ ~isTerminated(over, won, keepPlaying)
    /\ undosUsed = UndoCap /\ Len(undoStack) > 0

\* exchangeToggle was refused in a game that goes on with exchangesUsed at its cap
C17_WitnessToggle ==
    /\ last.op = "exchangeToggle" /\ ~last.accepted
    /\ ~isTerminated(over, won, keepPlaying)
    /\ exchangesUsed = ExchangeCap /\ ~exchangePending

\* a move was refused in a lost game
C17_WitnessOver ==
    /\ last.op = "move" /\ ~last.accepted
    /\ over

----------------------------------------------------------------------------
(* The sustained loop *)

(* C19: starting the sustained loop (play("swapSelect")) while a loop is
   running tears the previous instance down first: after any number of
   successive starts exactly one loop node graph is active and every earlier
   instance has been scheduled to stop. *)
C19_OneLoopInstance ==
    /\ snd.active \in {0, 1}
    /\ snd.pu <=> snd.active = 1
    /\ (last.op = "tileClick" /\ last.accepted /\ exchangeFirst = last.pos
           /\ ~exchangePending /\ ~snd.muted)
          => snd.active = 1

\* a first tile has just been selected while the loop of an earlier selection
\* was still running, and one instance is active
C19_Witness ==
    /\ last.op = "tileClick" /\ last.accepted
    /\ exchangeFirst = last.pos /\ ~exchangePending
    /\ snd.replaced
    /\ snd.pu /\ snd.active = 1

(* C20: whenever the resolve ("swap") sound is realised, the sustained loop
   has been stopped first: the stop precedes the creation of every voice of
   the swap sound and no loop instance is active once the swap sound has
   started. *)
C20_SwapAfterLoopStopped ==
    [][(last'.op = "dwell" /\ ~snd.muted) =>
          /\ ~snd'.swapOverLoop
          /\ ~snd'.pu
          /\ snd'.active = 0]_vars

\* the dwell callback committed a swap and played the swap sound, the loop of
\* the selection being stopped
C20_Witness ==
    /\ last.op = "dwell" /\ last.accepted
    /\ ~snd.muted
    /\ exchangesUsed > 0
    /\ ~snd.pu /\ snd.active = 0 /\ ~snd.swapOverLoop

----------------------------------------------------------------------------
(* The SoundManager on its own: every call of its interface in every order *)

\* the names play is called with: the keys of _sounds, two inherited members
\* and two names that are found nowhere
PlayNames == SoundNames \cup InheritedNames \cup {"explode", ""}

\* the observation of one call of play: voiced tells that a recipe of _sounds ran
SoundObs(name, s) ==
    [op |-> "play", accepted |-> TRUE, dir |-> -1, pos |-> NoPos, renders |-> 0,
     spawnedAt |-> NoPos, from |-> NoFrom, name |-> name,
     voiced |-> Dispatched(name, s) /\ name \in SoundNames]

\* SoundManager.play(name)
PlaySound(name) ==
    /\ snd' = play(name, snd)
    /\ last' = SoundObs(name, snd)
    /\ UNCHANGED <<gameVars, timers, storedBest, movesLeft, restartsLeft>>

\* SoundManager.stopPowerUp()
StopPowerUp ==
    /\ snd' = stopPowerUp(snd)
    /\ last' = Obs("stopPowerUp", TRUE, -1, NoPos, 0, NoPos)
    /\ UNCHANGED <<gameVars, timers, storedBest, movesLeft, restartsLeft>>

\* SoundManager.resetTerminal()
ResetTerminal ==
    /\ snd' = resetTerminal(snd)
    /\ last' = Obs("resetTerminal", TRUE, -1, NoPos, 0, NoPos)
    /\ UNCHANGED <<gameVars, timers, storedBest, movesLeft, restartsLeft>>

\* the audio backend becomes unavailable: from now on creating a context or a
\* node throws
AudioFails ==
    /\ ~snd.broken
    /\ snd' = [snd EXCEPT !.broken = TRUE]
    /\ last' = Obs("audioFails", TRUE, -1, NoPos, 0, NoPos)
    /\ UNCHANGED <<gameVars, timers, storedBest, movesLeft, restartsLeft>>

InitSound == MidGame(StartBoard, <<>>, 0, 0, FALSE, NoPos, 0, 0, 0)

NextSound ==
    /\ \/ \E name \in PlayNames : PlaySound(name)
       \/ StopPowerUp
       \/ ResetTerminal
       \/ ToggleMute
       \/ AudioFails
    /\ UNCHANGED <<fx, store, dom>>

SpecSound == InitSound /\ [][NextSound]_vars

(* C21: while muted, play(name) does nothing for every event name: it creates
   no voice, starts, modulates or stops no sustained loop, and leaves the
   win/gameover latch unchanged; play with a name that is not in the dispatch
   table does nothing as well. *)
C21_MutedPlayDoesNothing ==
    [][(last'.op = "play" /\ (snd.muted \/ last'.name \notin SoundNames))
          => (~last'.voiced /\ snd' = snd)]_vars

\* play("swap") was called muted while the loop was running and before the
\* terminal latch was used: the loop goes on
C21_Witness ==
    /\ last.op = "play" /\ last.name = "swap"
    /\ snd.muted /\ snd.pu /\ snd.active = 1
    /\ ~last.voiced

\* play was called unmuted with an inherited name
C21_WitnessInherited ==
    /\ last.op = "play" /\ last.name \in InheritedNames
    /\ ~snd.muted /\ ~snd.broken /\ snd.pu

----------------------------------------------------------------------------
(* The game with the audio backend failing at any moment *)

\* a game with one exchange and one move left, a game one move from its win,
\* and a game that is followed through its restarts
InitQuiet ==
    \/ MidGame(AfterLeft, <<SnapshotOf(StartBoard)>>, 0, ExchangeCap - 1, FALSE, NoPos, 0, 1, 0)
    \/ MidGame(NearlyWon, <<SnapshotOf(BeforeNearlyWon)>>, 0, ExchangeCap, FALSE, NoPos, 0, 1, 0)
    \/ MidGame(AfterLeft, <<SnapshotOf(StartBoard)>>, UndoCap, ExchangeCap, FALSE, NoPos, 0, 0,
               MaxRestarts)

NextQuiet ==
    /\ ~Idle
    /\ \/ \E d \in Dirs : Move(d)
       \/ Undo
       \/ ExchangeToggle
       \/ \E pos \in Pos : HandleTileClick(pos)
       \/ DwellFire
       \/ Restart
       \/ AudioFails
    /\ UNCHANGED <<fx, store, dom>>

SpecQuiet == InitQuiet /\ [][NextQuiet]_vars

\* the handler that ran last, and what it does to the game with working audio
AsWithWorkingAudio ==
    /\ Displaced =>
          LET m == Slide(cells, score, bestScore, storedBest, won, NewSound(FALSE), last'.dir)
          IN  /\ m.moved
              /\ score' = m.score /\ bestScore' = m.bestScore /\ won' = m.won
              /\ \A p \in Pos \ {last'.spawnedAt} : cells'[p] = m.cells[p]
              /\ m.cells[last'.spawnedAt] = NoTile
              /\ cells'[last'.spawnedAt].value \in SpawnValues
              /\ over' = ~movesAvailable(cells')
              /\ undoStack' = PushUndo(undoStack, snapshotState(cells, score, over, won),
                                       undosUsed)
              /\ last'.renders = 1
    /\ (last'.op = "undo" /\ last'.accepted) =>
          /\ Values(cells') = undoStack[Len(undoStack)].cells
          /\ score' = undoStack[Len(undoStack)].score
          /\ undoStack' = SubSeq(undoStack, 1, Len(undoStack) - 1)
          /\ undosUsed' = undosUsed + 1
          /\ last'.renders = 1
    /\ Commit =>
          /\ cells' = doExchange(cells, exchangeFirst, exchangeSecond)
          /\ exchangesUsed' = exchangesUsed + 1
          /\ ~exchangePending' /\ ~exchangeMode'
          /\ last'.renders = 1
    /\ (last'.op = "exchangeToggle" /\ last'.accepted) => exchangeMode' = ~exchangeMode
    /\ (last'.op = "tileClick" /\ last'.accepted) =>
          \/ exchangeFirst = NoPos /\ exchangeFirst' = last'.pos
          \/ exchangeFirst = last'.pos /\ exchangeFirst' = NoPos
          \/ exchangePending' /\ exchangeSecond' = last'.pos
    /\ last'.op = "restart" =>
          /\ TileCount(Values(cells')) = StartTiles
          /\ score' = 0 /\ ~over' /\ ~won' /\ ~keepPlaying'
          /\ undoStack' = <<>> /\ undosUsed' = 0 /\ exchangesUsed' = 0
          /\ ~exchangeMode' /\ ~exchangePending'
          /\ last'.renders = 1

(* C22: with the audio backend unavailable or blocked (creating the context or
   a node throws) play(name) returns normally for every event name and
   stopPowerUp returns normally, so move, undo, exchange and restart make the
   same game-state transitions as with working audio. *)
C22_BlockedAudioIsSilent ==
    /\ [](~snd.raised)
    /\ [][AsWithWorkingAudio]_vars

\* with the backend blocked a move merged two tiles: play was called for the
\* move, the merge and the spawn
C22_Witness ==
    /\ snd.broken /\ ~snd.muted
    /\ last.op = "move" /\ last.accepted
    /\ \E p \in Pos : cells[p] # NoTile /\ cells[p].merged

\* with the backend blocked a swap was committed
C22_WitnessSwap ==
    /\ snd.broken
    /\ last.op = "dwell" /\ last.accepted

\* with the backend blocked the winning move latched the terminal sound
\* without a sound
C22_WitnessWin ==
    /\ snd.broken /\ won
    /\ snd.terminalPlayed /\ snd.wins = 0

----------------------------------------------------------------------------
(* SpaceEffects: the particle pool and its frame loop (src/unnamed/part_000),
   and the effect timers HTMLActuator._drawTile sets.  The pool is kept as a
   sequence of cohorts, oldest first: n particles pushed by one call with the
   same life.  A life is counted in runs of frames, so that one Step stands
   for the frames in which every particle loses one unit of life; the frame
   rate is the display's and timers fire late, so frames and timer callbacks
   interleave freely. *)

\* cfg.count of every tier
TierCount ==
    (2 :> 10) @@ (4 :> 16) @@ (8 :> 24) @@ (16 :> 30) @@ (32 :> 38) @@ (64 :> 46) @@
    (128 :> 54) @@ (256 :> 64) @@ (512 :> 76) @@ (1024 :> 88) @@ (2048 :> 100)

\* the tiers with cfg.doubleBurst
DoubleBurst == {512, 1024, 2048}

\* the names SpaceEffects exposes: return { init, trigger, triggerSplit }
Exposed == {"init", "trigger", "triggerSplit"}

Lives == 1 .. MaxLife

Min(a, b) == IF a <= b THEN a ELSE b

RECURSIVE Total(_)
\* particles.length
Total(ps) == IF ps = <<>> THEN 0 ELSE Head(ps).n + Total(Tail(ps))

\* particles.push of n particles of one life
Push(ps, n, life) ==
    IF n = 0 THEN ps
    ELSE IF ps # <<>> /\ ps[Len(ps)].life = life
         THEN [ps EXCEPT ![Len(ps)].n = @ + n]
         ELSE Append(ps, [n |-> n, life |-> life])

RECURSIVE Cull(_, _)
\* particles.splice(0, excess): the oldest particles go first
Cull(ps, excess) ==
    IF excess <= 0 \/ ps = <<>> THEN ps
    ELSE IF Head(ps).n <= excess THEN Cull(Tail(ps), excess - Head(ps).n)
         ELSE <<[Head(ps) EXCEPT !.n = @ - excess]>> \o Tail(ps)

RECURSIVE Aged(_)
\* p.life -= 1 for every particle, the dead ones spliced out
Aged(ps) ==
    IF ps = <<>> THEN <<>>
    ELSE IF Head(ps).life <= 1 THEN Aged(Tail(ps))
         ELSE Push(<<>>, Head(ps).n, Head(ps).life - 1) \o Aged(Tail(ps))

RECURSIVE Joined(_, _)
\* the cohorts of qs pushed one by one
Joined(ps, qs) == IF qs = <<>> THEN ps ELSE Joined(Push(ps, Head(qs).n, Head(qs).life), Tail(qs))

\* step() without the cull of the oldest particles
stepNoCull(f) ==
    LET ps == Joined(<<>>, Aged(f.particles))
    IN  [f EXCEPT !.particles = ps, !.isRunning = ps # <<>>]

\* step(): cull down to the cap, age and draw, then ask for the next frame
\* while there are particles
step(f) ==
    LET ps == Joined(<<>>, Aged(Cull(f.particles, Total(f.particles) - MAX_PARTICLES)))
    IN  [f EXCEPT !.particles = ps, !.isRunning = ps # <<>>]

\* startLoop()
startLoop(f) == [f EXCEPT !.isRunning = TRUE]

\* Math.round(count * 0.22)
Round22(count) == (22 * count + 50) \div 100

\* trigger(tileValue, tileElement): the first wave clamped to the room left,
\* startLoop, and the timer of the second wave for the tiers with doubleBurst
trigger(f, tileValue, life) ==
    LET key == getTier(tileValue).key
        count == TierCount[key]
        available == MAX_PARTICLES - Total(f.particles)
        toSpawn == Min(count, IF available > 0 THEN available ELSE 0)
        g == startLoop([f EXCEPT !.particles = Push(@, toSpawn, life)])
    IN  IF key \in DoubleBurst
        THEN [g EXCEPT !.bursts = Append(@, Min(18, Round22(count)))]
        ELSE g

\* the callback of the second-wave timer: burstCfg.count particles pushed
secondWave(f, life) ==
    [f EXCEPT !.particles = Push(@, Head(f.bursts), life), !.bursts = Tail(@)]

\* triggerSplit(boardElement): cluster A, cluster B and the halo, then startLoop
triggerSplit(f, lifeA, lifeB, lifeH) ==
    startLoop([f EXCEPT !.particles = Push(Push(Push(@, 70, lifeA), 70, lifeB), 40, lifeH)])

RECURSIVE DrawTiles(_, _, _, _)
\* render: _drawTile for every tile, columns first.  A tile with a
\* previousPosition slides; a merged tile sets the 170 ms timer of
\* SpaceEffects.trigger(value); any other tile of an undo render sets the timer
\* of the split effect
DrawTiles(f, g, isUndo, ps) ==
    IF ps = <<>> THEN f
    ELSE LET t == g[Head(ps)]
             h == IF t = NoTile \/ t.prev # NoPos THEN f
                  ELSE IF t.merged THEN [f EXCEPT !.mergeTimers = Append(@, t.value)]
                  ELSE IF isUndo THEN [f EXCEPT !.splitTimers = @ + 1]
                  ELSE f
         IN  DrawTiles(h, g, isUndo, Tail(ps))

\* the cells in the order render visits them: grid.cells.forEach by column
ColumnOrder == [i \in 1 .. Size * Size |-> <<(i - 1) \div Size, (i - 1) % Size>>]

\* the effect timers of the render the handler that ran issued
Rendered ==
    fx' = IF last'.renders = 0 THEN fx
          ELSE DrawTiles(fx, cells', last'.op = "undo", ColumnOrder)

\* an observation of the effect engine: whether the call reached the engine,
\* and how many particles a frame step culled
FxObs(op, ran, culled) ==
    [op |-> op, accepted |-> TRUE, dir |-> -1, pos |-> NoPos, renders |-> 0,
     spawnedAt |-> NoPos, from |-> NoFrom, ran |-> ran, culled |-> culled]

\* the particles of pool f beyond the cap
Excess(f) ==
    IF Total(f.particles) > MAX_PARTICLES THEN Total(f.particles) - MAX_PARTICLES ELSE 0

FxOnly ==
    UNCHANGED <<gameVars, timers, snd, storedBest, movesLeft, restartsLeft, store, dom>>

\* SpaceEffects.trigger called from outside the actuator
Trigger(tileValue) ==
    /\ fx.left > 0
    /\ \E life \in Lives : fx' = [trigger(fx, tileValue, life) EXCEPT !.left = @ - 1]
    /\ last' = FxObs("trigger", TRUE, 0)
    /\ FxOnly

\* SpaceEffects.triggerSplit called from outside the actuator
TriggerSplit ==
    /\ fx.left > 0
    /\ \E lifeA \in Lives, lifeB \in Lives, lifeH \in Lives :
          fx' = [triggerSplit(fx, lifeA, lifeB, lifeH) EXCEPT !.left = @ - 1]
    /\ last' = FxObs("triggerSplit", TRUE, 0)
    /\ FxOnly

\* the 170 ms timer of a merged tile: SpaceEffects.trigger(capturedValue, capturedEl)
MergeEffectFire ==
    /\ fx.mergeTimers # <<>>
    /\ \E life \in Lives :
          fx' = trigger([fx EXCEPT !.mergeTimers = Tail(@)], Head(fx.mergeTimers), life)
    /\ last' = FxObs("mergeEffect", "trigger" \in Exposed, 0)
    /\ FxOnly

\* the timer of an undo-restored tile: SpaceEffects.triggerTileSplit(capturedEl).
\* A name the engine does not expose is undefined, the call throws a TypeError
\* in the callback and nothing else happens
UndoEffectFire ==
    /\ fx.splitTimers > 0
    /\ LET f == [fx EXCEPT !.splitTimers = @ - 1]
       IN  \E lifeA \in Lives, lifeB \in Lives, lifeH \in Lives :
              fx' = IF "triggerTileSplit" \in Exposed
                    THEN triggerSplit(f, lifeA, lifeB, lifeH)
                    ELSE f
    /\ last' = FxObs("undoEffect", "triggerTileSplit" \in Exposed, 0)
    /\ FxOnly

\* the 180 ms timer of the second wave
BurstFire ==
    /\ fx.bursts # <<>>
    /\ \E life \in Lives : fx' = secondWave(fx, life)
    /\ last' = FxObs("burst", TRUE, 0)
    /\ FxOnly

\* the frame callback requestAnimationFrame(step) asked for
Step ==
    /\ fx.isRunning
    /\ fx' = step(fx)
    /\ last' = FxObs("step", TRUE, Excess(fx))
    /\ FxOnly

\* the values trigger is called with from outside
TriggerValues == {2, 3000}

\* the engine called from outside while the game rests, and two games whose
\* renders set the effect timers: one with a merge to undo and one about to be
\* won, one move followed in each
InitEffects ==
    \/ MidGame(StartBoard, <<>>, 0, ExchangeCap, FALSE, NoPos, 0, 0, 0)
    \/ \E g \in {[vals |-> AfterUp,
                   stack |-> <<SnapshotOf(StartBoard), SnapshotOf(AfterLeft)>>],
                  [vals |-> NearlyWon, stack |-> <<SnapshotOf(BeforeNearlyWon)>>]} :
          MidGameFx(g.vals, g.stack, 0, ExchangeCap, FALSE, NoPos, 0, 1, 0,
                    [NoEffects EXCEPT !.left = 0])

NextEffects ==
    \/ /\ ~Idle
       /\ movesLeft > 0
       /\ \/ \E d \in Dirs : Move(d)
          \/ Undo
       /\ Rendered
       /\ UNCHANGED <<store, dom>>
    \/ \E tileValue \in TriggerValues : Trigger(tileValue)
    \/ TriggerSplit
    \/ MergeEffectFire
    \/ UndoEffectFire
    \/ BurstFire
    \/ Step

SpecEffects == InitEffects /\ [][NextEffects]_vars

(* C23, as the claim states it: in every reachable state the particle array
   holds at most MAX_PARTICLES = 200 particles, whatever trigger calls,
   second-wave bursts, triggerSplit calls and frame steps have happened. *)
C23_Original == Total(fx.particles) <= MAX_PARTICLES

(* C23: the pool holds at most MAX_PARTICLES = 200 particles after every frame
   step, and the first wave of trigger adds no particle beyond the cap: it
   leaves a pool that is within the cap within it, and a pool beyond the cap
   as large as it was.  (The second wave and triggerSplit push without looking
   at the cap; the next frame step drops the oldest particles beyond it.) *)
C23_PoolWithinCapAfterFrame ==
    [][/\ last'.op = "step" => Total(fx'.particles) <= MAX_PARTICLES
       /\ last'.op \in {"trigger", "mergeEffect"} => Excess(fx') = Excess(fx)]_vars

\* a frame step has dropped the oldest particles of a pool beyond the cap and
\* left a full pool
C23_Witness ==
    /\ last.op = "step"
    /\ last.culled > 0
    /\ Total(fx.particles) = MAX_PARTICLES

\* a first wave has been clamped to the room left in the pool
C23_WitnessClamped ==
    /\ last.op \in {"trigger", "mergeEffect"}
    /\ Total(fx.particles) = MAX_PARTICLES
    /\ Len(fx.particles) > 1

(* C30: the frame loop is scheduled whenever a particle is alive: in every
   reachable state a non-empty particle array implies that a frame callback is
   pending (isRunning), also for the particles the delayed second wave adds. *)
C30_LoopRunsWhileParticles == fx.particles # <<>> => fx.isRunning

\* the render of an accepted undo has set the timer of the split effect for at
\* least one tile
UndoSetsSplitTimer ==
    (last'.op = "undo" /\ last'.accepted) => fx'.splitTimers > fx.splitTimers

\* the callback of a split timer reaches the engine
SplitTimerReachesEngine == last'.op = "undoEffect" => last'.ran

(* C24: every successful undo fires the split effect: the render that follows
   it sets a timer whose callback calls an entry point the engine exposes. *)
C24_UndoFiresSplit == [][UndoSetsSplitTimer /\ SplitTimerReachesEngine]_vars

----------------------------------------------------------------------------
\* the actions of the core
CoreOps == {"move", "undo", "exchangeToggle", "tileClick", "dwell", "restart", "keepPlaying"}

\* the game is no longer what it was: the tile values or one of the other
\* fields of the GameManager differ (the animation flags of the tiles aside)
GameChanged ==
    \/ Values(cells') # Values(cells)
    \/ <<score, bestScore, over, won, keepPlaying, undoStack, undosUsed, exchangesUsed,
          exchangeMode, exchangeFirst, exchangeSecond, exchangePending>>'
         # <<score, bestScore, over, won, keepPlaying, undoStack, undosUsed, exchangesUsed,
             exchangeMode, exchangeFirst, exchangeSecond, exchangePending>>

(* C25: the core renders exactly once after every action that changes the
   state of the game (a displacing move, a successful undo, exchangeToggle,
   selecting or deselecting a tile, the start of the dwell window, the swap
   commit, restart, keep-playing after a win), and not at all after a rejected
   or no-op input. *)
C25_RenderOncePerChange ==
    [][last'.op \in CoreOps =>
          /\ GameChanged => last'.renders = 1
          /\ ~last'.accepted => last'.renders = 0]_vars

----------------------------------------------------------------------------
(* LocalStorageManager (src/unnamed/part_002): the storage it chooses and the
   texts it keeps there.  ls tells what window.localStorage does in this
   browser: it works, reading the property throws, or setItem throws. *)

bestScoreKey == "ft2048-bestScore"
gameStateKey == "ft2048-gameState"
StoreKeys == {bestScoreKey, gameStateKey}

JsUndefined == [js |-> "undefined"]
JsNull == [js |-> "null"]
\* no entry under a key
Absent == [js |-> "absent"]

\* the number n, and the text that denotes the value v (in decimal notation
\* for a number, in JSON for a game state)
Num(n) == [js |-> "number", of |-> n]
Text(v) == [js |-> "string", of |-> v]

\* String(val): the decimal text of a number; a text is its own String
String(val) == IF val.js = "string" THEN val ELSE Text(val)

\* JSON.stringify(gameState) and JSON.parse(stateJSON)
JSONstringify(gameState) == Text(gameState)
JSONparse(stateJSON) == stateJSON.of

\* what "x || y" and "x ? y : z" take for true: not undefined, null or 0 (a
\* stored text is never empty)
Truthy(v) == v \notin {JsUndefined, JsNull, Num(0)}

\* a constructor that takes localStorage whatever it does
localStorageSupportedAlways(ls) == TRUE

\* localStorageSupported: the test write inside try/catch
localStorageSupported(ls) == ls = "works"

\* new LocalStorageManager() in a browser whose localStorage behaves as ls,
\* with nothing stored; wrote keeps what the callers have written
NewStore(ls) ==
    [ls |-> ls,
     uses |-> IF localStorageSupported(ls) THEN "localStorage" ELSE "fakeStorage",
     data |-> [k \in StoreKeys |-> Absent],
     wrote |-> [k \in StoreKeys |-> Absent]]

\* the call reaches a localStorage that throws
Raises(st, isWrite) ==
    /\ st.uses = "localStorage"
    /\ st.ls = "accessThrows" \/ (st.ls = "writeThrows" /\ isWrite)

\* storage.getItem(id): fakeStorage answers undefined for a missing key,
\* localStorage null
getItem(st, id) ==
    IF st.data[id] # Absent THEN st.data[id]
    ELSE IF st.uses = "fakeStorage" THEN JsUndefined ELSE JsNull

\* storage.setItem(id, val) and storage.removeItem(id)
setItem(st, id, val) == [st EXCEPT !.data[id] = String(val)]
removeItem(st, id) == [st EXCEPT !.data[id] = Absent]

\* the scores and game states the callers write
ScoreInputs == {Num(2 * k) : k \in 0 .. MaxStored}
StateInputs ==
    {JsNull, [js |-> "object", score |-> 0, over |-> FALSE],
     [js |-> "object", score |-> 4, over |-> TRUE]}

\* the observation of one call of the manager
StoreObs(op, result, raised) ==
    [op |-> op, accepted |-> TRUE, dir |-> -1, pos |-> NoPos, renders |-> 0,
     spawnedAt |-> NoPos, from |-> NoFrom, result |-> result, raised |-> raised]

StoreOnly ==
    UNCHANGED <<gameVars, timers, snd, storedBest, movesLeft, restartsLeft, fx, dom>>

Construct(ls) ==
    /\ store.uses = "none"
    /\ store' = NewStore(ls)
    /\ last' = StoreObs("construct", JsUndefined, FALSE)
    /\ StoreOnly

GetBestScore ==
    /\ store.uses # "none"
    /\ last' = IF Raises(store, FALSE) THEN StoreObs("getBestScore", JsUndefined, TRUE)
               ELSE LET v == getItem(store, bestScoreKey)
                    IN  StoreObs("getBestScore", IF Truthy(v) THEN v ELSE Num(0), FALSE)
    /\ UNCHANGED store
    /\ StoreOnly

SetBestScore(n) ==
    /\ store.uses # "none"
    /\ IF Raises(store, TRUE)
       THEN /\ last' = StoreObs("setBestScore", JsUndefined, TRUE)
            /\ UNCHANGED store
       ELSE /\ last' = StoreObs("setBestScore", JsUndefined, FALSE)
            /\ store' = [setItem(store, bestScoreKey, n) EXCEPT !.wrote[bestScoreKey] = n]
    /\ StoreOnly

GetGameState ==
    /\ store.uses # "none"
    /\ last' = IF Raises(store, FALSE) THEN StoreObs("getGameState", JsUndefined, TRUE)
               ELSE LET stateJSON == getItem(store, gameStateKey)
                    IN  StoreObs("getGameState",
                                 IF Truthy(stateJSON) THEN JSONparse(stateJSON) ELSE JsNull,
                                 FALSE)
    /\ UNCHANGED store
    /\ StoreOnly

SetGameState(gameState) ==
    /\ store.uses # "none"
    /\ IF Raises(store, TRUE)
       THEN /\ last' = StoreObs("setGameState", JsUndefined, TRUE)
            /\ UNCHANGED store
       ELSE /\ last' = StoreObs("setGameState", JsUndefined, FALSE)
            /\ store' = [setItem(store, gameStateKey, JSONstringify(gameState))
                            EXCEPT !.wrote[gameStateKey] = gameState]
    /\ StoreOnly

ClearGameState ==
    /\ store.uses # "none"
    /\ IF Raises(store, TRUE)
       THEN /\ last' = StoreObs("clearGameState", JsUndefined, TRUE)
            /\ UNCHANGED store
       ELSE /\ last' = StoreObs("clearGameState", JsUndefined, FALSE)
            /\ store' = [removeItem(store, gameStateKey) EXCEPT !.wrote[gameStateKey] = Absent]
    /\ StoreOnly

InitStore == MidGame(StartBoard, <<>>, 0, 0, FALSE, NoPos, 0, 0, 0)

NextStore ==
    \/ \E ls \in {"works", "accessThrows", "writeThrows"} : Construct(ls)
    \/ GetBestScore
    \/ \E n \in ScoreInputs : SetBestScore(n)
    \/ GetGameState
    \/ \E gameState \in StateInputs : SetGameState(gameState)
    \/ ClearGameState

SpecStore == InitStore /\ [][NextStore]_vars

StoreOps == {"getBestScore", "setBestScore", "getGameState", "setGameState", "clearGameState"}

\* what the callers wrote last under a key, Absent before any write and after
\* clearGameState
Wrote(id) == store'.wrote[id]

\* the manager works on the in-memory store and its calls do not raise;
\* getGameState answers null before any write and after clearGameState, and
\* the written state otherwise
FallsBack ==
    /\ store'.uses = "fakeStorage"
    /\ ~last'.raised
    /\ last'.op = "getGameState" =>
          last'.result = IF Wrote(gameStateKey) = Absent THEN JsNull ELSE Wrote(gameStateKey)

(* C26, as the claim states it: with localStorage unavailable the manager
   falls back to the in-memory store, no call raises, and getBestScore answers
   0 before any write and the written value n after setBestScore(n). *)
C26_Original ==
    [][(store.ls # "works" /\ last'.op \in StoreOps) =>
          /\ FallsBack
          /\ last'.op = "getBestScore" =>
                last'.result = IF Wrote(bestScoreKey) = Absent THEN Num(0)
                               ELSE Wrote(bestScoreKey)]_vars

(* C26: with localStorage unavailable (reading window.localStorage or writing
   to it throws) the manager falls back to the in-memory store and no call
   raises; getBestScore answers 0 before any write and the text String(n) of
   the written value after setBestScore(n); getGameState answers null before
   any write, the written state after setGameState(s) and null again after
   clearGameState. *)
C26_FallbackStore ==
    [][(store.ls # "works" /\ last'.op \in StoreOps) =>
          /\ FallsBack
          /\ last'.op = "getBestScore" =>
                last'.result = IF Wrote(bestScoreKey) = Absent THEN Num(0)
                               ELSE String(Wrote(bestScoreKey))]_vars

\* the best score read back from the in-memory store after a write
C26_Witness ==
    /\ store.ls # "works"
    /\ last.op = "getBestScore"
    /\ store.wrote[bestScoreKey] # Absent

\* the game state read after it was written, and after it was cleared again
C26_WitnessState ==
    /\ store.ls = "writeThrows"
    /\ last.op = "getGameState"
    /\ last.result \in StateInputs \ {JsNull}

C26_WitnessCleared ==
    /\ store.ls = "accessThrows"
    /\ last.op = "getGameState"
    /\ store.wrote[bestScoreKey] # Absent
    /\ store.data[gameStateKey] = Absent

----------------------------------------------------------------------------
(* Games in progress: the boards on which the score is examined *)

\* a board on which a move to the left or to the right merges two pairs of
\* different values, and the board it came from by a move up (spawn 2 at (1,0))
TwoMerges ==
    BoardOfRows(<<<<2, 2, 4, 4>>, <<0, 0, 0, 0>>, <<0, 0, 0, 0>>, <<0, 0, 0, 0>>>>)
BeforeTwoMerges ==
    BoardOfRows(<<<<2, 0, 4, 0>>, <<0, 0, 0, 4>>, <<0, 0, 0, 0>>, <<0, 0, 0, 0>>>>)

\* either with one exchange left and no move followed, or with the exchanges
\* used up and one move followed
InitScore ==
    \/ MidGame(TwoMerges, <<SnapshotOf(BeforeTwoMerges)>>, 0, ExchangeCap - 1, FALSE,
               NoPos, 0, 0, 0)
    \/ MidGame(TwoMerges, <<SnapshotOf(BeforeTwoMerges)>>, 0, ExchangeCap, FALSE,
               NoPos, 0, 1, 0)
    \/ MidGame(AfterLeft, <<SnapshotOf(StartBoard)>>, 0, ExchangeCap - 1, FALSE,
               NoPos, 0, 1, 0)

NextScore ==
    /\ ~Idle
    /\ \/ \E d \in Dirs : Move(d)
       \/ Undo
       \/ ExchangeToggle
       \/ \E pos \in Pos : HandleTileClick(pos)
       \/ DwellFire
    /\ UNCHANGED <<fx, store, dom>>

SpecScore == InitScore /\ [][NextScore]_vars

(* C27: the score after a move is the score before plus the sum of the values
   of the tiles the move created by merging (2v for every merge of two tiles
   of value v); a move without a merge, an exchange (toggle, selection, dwell,
   commit) and a refused input leave the score as it is, and an undo adds
   nothing: it puts the score of its snapshot back, which is not above the
   score before. *)
C27_ScoreGrowsByMerges ==
    [][/\ Displaced => score' = score + MergedSum
       /\ last'.op \in {"exchangeToggle", "tileClick", "dwell"} => score' = score
       /\ ~last'.accepted => score' = score
       /\ (last'.op = "undo" /\ last'.accepted) =>
             score' = undoStack[Len(undoStack)].score /\ score' <= score]_vars

\* a move has merged two pairs of different values: 4 + 8 on top of the score
C27_Witness ==
    /\ last.op = "move" /\ last.accepted
    /\ score = last.from.score + 12
    /\ Cardinality({p \in Pos : cells[p] # NoTile /\ cells[p].merged}) = 2

\* a move without a merge, the commit of an exchange, and the undo of a move
C27_WitnessNoMerge ==
    /\ last.op = "move" /\ last.accepted
    /\ \A p \in Pos : cells[p] # NoTile => ~cells[p].merged

C27_WitnessCommit == last.op = "dwell" /\ last.accepted /\ score > 0

C27_WitnessUndo ==
    /\ last.op = "undo" /\ last.accepted
    /\ last.from # NoFrom /\ score = last.from.score

----------------------------------------------------------------------------
\* the last UndoCap entries of a sequence
Newest(seq) == IF Len(seq) <= UndoCap THEN seq ELSE SubSeq(seq, Len(seq) - UndoCap + 1, Len(seq))

(* C28: the undo stack never holds more than 2 snapshots; while undosUsed < 2
   a displacing move puts the snapshot of the game before the move on top and,
   when that makes three, drops the oldest, so that the stack holds the
   snapshots of the most recent moves, most recent on top. *)
C28_UndoStackKeepsNewest ==
    /\ [](Len(undoStack) <= UndoCap)
    /\ [][(Displaced /\ undosUsed < UndoCap) =>
             undoStack' = Newest(undoStack \o <<snapshotState(cells, score, over, won)>>)]_vars

\* a third snapshot has been pushed: the oldest is gone, the former top is
\* below the snapshot of the game before the move
C28_Witness ==
    /\ last.op = "move" /\ last.accepted
    /\ undosUsed < UndoCap
    /\ undoStack = <<SnapshotOf(AfterLeft), last.from>>
    /\ last.from = SnapshotOf(AfterUp)

----------------------------------------------------------------------------
(* C29: exchange mode is active only while the game is being played: in every
   reachable state exchangeMode implies that the game is not terminated (not
   over, and not won without keep-playing). *)
C29_ExchangeModeOnlyWhilePlaying == exchangeMode => ~isTerminated(over, won, keepPlaying)

\* a move made in exchange mode with a tile selected (the loop sound is still
\* on) has won the game, and exchange mode is off
C29_Witness ==
    /\ last.op = "move" /\ last.accepted
    /\ won /\ ~keepPlaying
    /\ snd.pu
    /\ ~exchangeMode

----------------------------------------------------------------------------
(* SpaceEffects.trigger: the order in which the overlays and the particle waves
   of one effect take effect.  The overlays trigger spawns itself are appended
   to the document while trigger runs; the shakes, the six clouds of the
   multi-nebula ring and the second wave are timer callbacks, which run after
   trigger has returned, the one with the smaller delay first and two of the
   same delay in the order they were set. *)

\* the tiers with cfg.nebula
NebulaTiers == {128, 256, 512, 1024, 2048}

\* the tiers with cfg.shake
ShakeTiers == {512, 1024, 2048}

\* the tiers with cfg.screenFlash
ScreenFlashTiers == {1024, 2048}

\* the tiers with cfg.multiNebula
MultiNebulaTiers == {2048}

\* an overlay or particle wave that took effect, by a timer callback or not
Ev(kind, timed) == [kind |-> kind, timed |-> timed]

\* a timer trigger sets
Timer(delay, kind) == [delay |-> delay, kind |-> kind]

\* trigger pushing the first wave before it spawns the overlays
SyncEventsParticlesFirst(key) ==
    <<Ev("particles", FALSE), Ev("flash", FALSE)>>
    \o (IF key \in NebulaTiers THEN <<Ev("nebula", FALSE)>> ELSE <<>>)
    \o [r \in 1 .. TIERS[key] |-> Ev("ring", FALSE)]

\* the statements of trigger that take effect while it runs, in code order
SyncEvents(key) ==
    (IF key \in ScreenFlashTiers THEN <<Ev("screenFlash", FALSE)>> ELSE <<>>)
    \o <<Ev("flash", FALSE)>>
    \o (IF key \in NebulaTiers THEN <<Ev("nebula", FALSE)>> ELSE <<>>)
    \o [r \in 1 .. TIERS[key] |-> Ev("ring", FALSE)]
    \o <<Ev("particles", FALSE)>>

\* the timers trigger sets, in the order it sets them
Scheduled(key) ==
    (IF key \in MultiNebulaTiers
     THEN [ni \in 1 .. 6 |-> Timer((ni - 1) * 55, "nebula")] ELSE <<>>)
    \o (IF key \in ShakeTiers THEN <<Timer(60, "shake")>> ELSE <<>>)
    \o (IF key \in ShakeTiers /\ key >= 1024 THEN <<Timer(380, "shake")>> ELSE <<>>)
    \o (IF key \in DoubleBurst THEN <<Timer(180, "particles")>> ELSE <<>>)

\* the timer that fires next: the smallest delay, the one set first among equals
NextTimer(ts) ==
    CHOOSE i \in 1 .. Len(ts) :
        \A j \in 1 .. Len(ts) :
            ts[i].delay < ts[j].delay \/ (ts[i].delay = ts[j].delay /\ i <= j)

\* the timers ts without the i-th
Without(ts, i) == SubSeq(ts, 1, i - 1) \o SubSeq(ts, i + 1, Len(ts))

\* the observation of a call of trigger or of one of its timer callbacks
OrderObs(op, value) ==
    [op |-> op, accepted |-> TRUE, dir |-> -1, pos |-> NoPos, renders |-> 0,
     spawnedAt |-> NoPos, from |-> NoFrom, value |-> value]

OrderOnly ==
    UNCHANGED <<gameVars, timers, snd, storedBest, movesLeft, restartsLeft, store>>

\* trigger(tileValue, tileElement), the whole function
TriggerEffect(tileValue) ==
    /\ fx.left > 0
    /\ dom.timers = <<>>
    /\ \E life \in Lives : fx' = [trigger(fx, tileValue, life) EXCEPT !.left = @ - 1]
    /\ LET key == getTier(tileValue).key
       IN  dom' = [key |-> key, log |-> SyncEvents(key), timers |-> Scheduled(key)]
    /\ last' = OrderObs("trigger", tileValue)
    /\ OrderOnly

\* the callback of the timer of trigger that is due next
TimerFire ==
    /\ dom.timers # <<>>
    /\ LET i == NextTimer(dom.timers)
           kind == dom.timers[i].kind
       IN  /\ dom' = [dom EXCEPT !.log = Append(@, Ev(kind, TRUE)),
                                 !.timers = Without(@, i)]
           /\ IF kind = "particles"
              THEN \E life \in Lives : fx' = secondWave(fx, life)
              ELSE fx' = fx
           /\ last' = OrderObs("timer", dom.timers[i].delay)
    /\ OrderOnly

\* one effect triggered on a resting game with an empty pool
InitOrder ==
    MidGameFx(StartBoard, <<>>, 0, ExchangeCap, FALSE, NoPos, 0, 0, 0,
              [NoEffects EXCEPT !.left = 1])

NextOrder ==
    \/ \E tileValue \in TierInputs : TriggerEffect(tileValue)
    \/ TimerFire

SpecOrder == InitOrder /\ [][NextOrder]_vars

\* the place of a kind of overlay in the order flash, nebula, rings, shake, particles
Rank(kind) ==
    CASE kind \in {"screenFlash", "flash"} -> 1
      [] kind = "nebula" -> 2
      [] kind = "ring" -> 3
      [] kind = "shake" -> 4
      [] kind = "particles" -> 5

(* C31, as the claim states it: within one triggered merge effect the overlays
   and particles take effect in the fixed order flash, then nebula, then
   rings, then board shake, then particles, for every tier. *)
C31_Original ==
    \A i, j \in DOMAIN dom.log :
        i < j => Rank(dom.log[i].kind) <= Rank(dom.log[j].kind)

(* C31: within one triggered merge effect, what trigger spawns itself takes
   effect first and in the fixed order flash (after the screen flash of the
   tiers that have one), nebula, rings, first wave of particles, for every
   tier; the board shake never precedes the first wave: it, the aftershock,
   the six clouds of the multi-nebula ring and the second wave take effect
   afterwards, by timers. *)
C31_SpawnOrderThenTimers ==
    LET log == dom.log
    IN  /\ \A i, j \in DOMAIN log : (i < j /\ log[i].timed) => log[j].timed
        /\ \A i, j \in DOMAIN log :
               (i < j /\ ~log[j].timed) => Rank(log[i].kind) <= Rank(log[j].kind)
        /\ \A i \in DOMAIN log :
               log[i].kind = "shake" =>
                   /\ log[i].timed
                   /\ \E j \in 1 .. i - 1 : log[j] = Ev("particles", FALSE)
        /\ dom.key # 0 =>
               /\ Ev("flash", FALSE) \in {log[i] : i \in DOMAIN log}
               /\ Ev("particles", FALSE) \in {log[i] : i \in DOMAIN log}
               /\ Cardinality({i \in DOMAIN log : log[i] = Ev("ring", FALSE)}) = TIERS[dom.key]

\* the effect of a 2048 merge has taken effect whole: nine overlays and the
\* first wave by trigger, nine callbacks after it, the shake among them
C31_Witness ==
    /\ dom.key = 2048
    /\ dom.timers = <<>>
    /\ Len(dom.log) = 18
    /\ Ev("shake", TRUE) \in {dom.log[i] : i \in DOMAIN dom.log}

\* the shake of a 512 merge has taken effect after the first wave of particles
C31_WitnessShakeLate ==
    /\ dom.key = 512
    /\ dom.log = SyncEvents(512) \o <<Ev("shake", TRUE)>>

----------------------------------------------------------------------------
(* Games in progress: full boards *)

\* a full board whose only two equal neighbours are the 2s of row 0, and the
\* board it came from by a move to the right (spawn 2 at (0,0))
LastPair ==
    BoardOfRows(<<<<2, 2, 8, 16>>, <<16, 8, 16, 8>>, <<8, 16, 8, 16>>, <<16, 8, 16, 8>>>>)
BeforeLastPair ==
    BoardOfRows(<<<<2, 8, 16, 0>>, <<16, 8, 16, 8>>, <<8, 16, 8, 16>>, <<16, 8, 16, 8>>>>)

\* a board on which the move to the left or to the right that makes 2048
\* leaves one empty cell in row 0, and no two equal neighbours when a 2 (left)
\* or a 4 (right) is spawned there, and the board it came from by a move to
\* the right that merged the 512s (spawn 2 at (0,0))
WinOrLose ==
    BoardOfRows(<<<<2, 1024, 1024, 4>>, <<8, 16, 8, 16>>, <<16, 8, 16, 8>>, <<8, 16, 8, 16>>>>)
BeforeWinOrLose ==
    BoardOfRows(<<<<512, 512, 1024, 4>>, <<8, 16, 8, 16>>, <<16, 8, 16, 8>>, <<8, 16, 8, 16>>>>)

\* the two games, with one exchange left and one move followed
InitFull ==
    \E g \in {[vals |-> LastPair, stack |-> <<SnapshotOf(BeforeLastPair)>>],
               [vals |-> WinOrLose, stack |-> <<SnapshotOf(BeforeWinOrLose)>>]} :
        MidGame(g.vals, g.stack, 0, ExchangeCap - 1, FALSE, NoPos, 0, 1, 0)

NextFull ==
    /\ ~Idle
    /\ \/ \E d \in Dirs : Move(d)
       \/ Undo
       \/ ExchangeToggle
       \/ \E pos \in Pos : HandleTileClick(pos)
       \/ DwellFire
    /\ UNCHANGED <<fx, store, dom>>

SpecFull == InitFull /\ [][NextFull]_vars

(* C32: the game never gets stuck undeclared: in every reachable state that
   is not terminated and has no swap pending, at least one of the four
   directions displaces a tile (no state has over = false on a full board
   without equal neighbours), also after an exchange commit or an undo. *)
C32_NeverStuckUndeclared ==
    (~isTerminated(over, won, keepPlaying) /\ ~exchangePending) => movesAvailable(cells)

\* the message render shows: "Mission Failed" when meta.over, else "You reached
\* 2048!" when meta.won, and none while the game is not terminated
Message(o, w, k) ==
    IF ~isTerminated(o, w, k) THEN "none"
    ELSE IF o THEN "over"
    ELSE IF w THEN "won"
    ELSE "none"

(* C33: the flags over and won are never both true: a move that produces the
   2048 tile does not also end the game as lost, so a game that reached 2048
   is presented as won. *)
C33_NeverOverAndWon ==
    /\ ~(over /\ won)
    /\ (won /\ isTerminated(over, won, keepPlaying)) => Message(over, won, keepPlaying) = "won"

----------------------------------------------------------------------------
(* The sustained loop in a game with the mute button *)

\* a game with one exchange left, the mute button being pressed at any
\* moment; the exploration follows either one displacing move or one restart
InitLoop ==
    \E withMove \in BOOLEAN :
        MidGame(AfterLeft, <<SnapshotOf(StartBoard)>>, 0, ExchangeCap - 1, FALSE, NoPos, 0,
                IF withMove THEN 1 ELSE 0, IF withMove THEN 0 ELSE 1)

NextLoop ==
    /\ ~Idle
    /\ \/ \E d \in Dirs : Move(d)
       \/ ExchangeToggle
       \/ \E pos \in Pos : HandleTileClick(pos)
       \/ DwellFire
       \/ Restart
       \/ ToggleMute
    /\ UNCHANGED <<fx, store, dom>>

SpecLoop == InitLoop /\ [][NextLoop]_vars

(* C34: the sustained power-up loop is active only while an exchange is in
   progress with a first tile selected: after the swap commits, after the
   selection is cancelled (same-tile click, exchangeToggle off, or a
   displacing move) and after restart no loop instance remains active, under
   every interleaving of these events with toggleMute. *)
C34_LoopOnlyWhileSelected ==
    snd.active > 0 => (exchangeFirst # NoPos /\ (exchangeMode \/ exchangePending))

----------------------------------------------------------------------------
(* The dwell callback among the other inputs *)

(* C35: the swap (resolve) sound is requested only when a swap is committed:
   every firing of the dwell callback, which calls play("swap") first thing,
   also exchanges the two selected tiles and increments exchangesUsed,
   whatever moves, undos and restarts came between the second click and the
   firing. *)
C35_SwapSoundOnlyOnCommit ==
    [][last'.op = "dwell"
          => /\ exchangeFirst # NoPos /\ exchangeSecond # NoPos
             /\ cells' = doExchange(cells, exchangeFirst, exchangeSecond)
             /\ exchangesUsed' = exchangesUsed + 1]_vars

(* C36: at the moment a swap commits, the two selected cells are distinct and
   both hold a tile, so an exchange never relocates a tile into an empty cell;
   also when an undo or a move that displaces nothing happens between the
   first selection and the commit. *)
C36_CommitSwapsTwoTiles ==
    [][(last'.op = "dwell" /\ last'.accepted)
          => /\ exchangeFirst # exchangeSecond
             /\ cells[exchangeFirst] # NoTile
             /\ cells[exchangeSecond] # NoTile]_vars

(* C37: a dwell timer set before a restart has no effect on the restarted
   game: when it fires it changes no grid cell, selection, flag or counter of
   the new game and commits no swap of the new game before that swap's own
   dwell delay is over.  Timers of equal delay fire in the order they were
   set, and a game sets no second timer while its own is outstanding, so of
   two or more outstanding callbacks the one that fires comes from before the
   restart. *)
C37_StaleTimerHasNoEffect ==
    [][(last'.op = "dwell" /\ timers >= 2)
          => /\ cells' = cells
             /\ UNCHANGED <<score, bestScore, over, won, keepPlaying, undoStack, undosUsed,
                            exchangesUsed, exchangeMode, exchangeFirst, exchangeSecond,
                            exchangePending>>]_vars

----------------------------------------------------------------------------
(* The best score *)

(* C38: in every reachable state bestScore >= score, and bestScore never
   decreases across move, undo, exchange and restart: undo rolls the score
   back and leaves bestScore, restart reads it back from the storage. *)
C38_BestScoreDominates ==
    /\ [](bestScore >= score)
    /\ [][bestScore' >= bestScore]_vars

\* an undo has rolled the score back below the best score
C38_Witness ==
    /\ last.op = "undo" /\ last.accepted
    /\ bestScore > score

\* a move has merged two tiles and raised the best score with the score
C38_WitnessMove ==
    /\ last.op = "move" /\ last.accepted
    /\ score > last.from.score
    /\ bestScore = score

\* a restart has set the score to 0 and kept the best score of the game before
C38_WitnessRestart ==
    /\ last.op = "restart"
    /\ score = 0 /\ bestScore > 0

\* a swap was committed in a game whose score an undo had rolled back
C38_WitnessCommit ==
    /\ last.op = "dwell" /\ last.accepted
    /\ bestScore > score

----------------------------------------------------------------------------
(* The exchange and the undo history *)

\* the board after the first move of a game merged the two start tiles (move
\* up, spawn 2 at (0,3)), and the start board
AfterMerge ==
    BoardOfRows(<<<<4, 0, 0, 0>>, <<0, 0, 0, 0>>, <<0, 0, 0, 0>>, <<2, 0, 0, 0>>>>)
StartColumn ==
    BoardOfRows(<<<<2, 0, 0, 0>>, <<2, 0, 0, 0>>, <<0, 0, 0, 0>>, <<0, 0, 0, 0>>>>)

\* that game with one exchange left, one move followed
InitHistory ==
    MidGame(AfterMerge, <<SnapshotOf(StartColumn)>>, 0, ExchangeCap - 1, FALSE, NoPos, 0, 1, 0)

SpecHistory == InitHistory /\ [][NextFull]_vars

(* C39: an exchange is not recorded in the undo history: the commit leaves the
   undo stack and undosUsed as they are, so a successful undo after a
   displacing move followed by a committed exchange puts back the snapshot
   that move took, the grid and the score as they were before the move, the
   exchange reverted with it, and leaves exchangesUsed unchanged: the
   exchange use is not refunded. *)
C39_ExchangeNotInHistory ==
    [][/\ (Displaced /\ undosUsed < UndoCap) =>
             undoStack'[Len(undoStack')] = snapshotState(cells, score, over, won)
       /\ last'.op \in {"exchangeToggle", "tileClick", "dwell"} =>
             UNCHANGED <<undoStack, undosUsed>>
       /\ (last'.op = "undo" /\ last'.accepted) =>
             /\ Values(cells') = undoStack[Len(undoStack)].cells
             /\ score' = undoStack[Len(undoStack)].score
             /\ exchangesUsed' = exchangesUsed]_vars

\* the one move, then the commit of the one exchange left, then an undo: the
\* board and the score are those before the move, the exchange stays used.
\* (The undo is the first one and came after the move, the stack holding one
\* snapshot again; a commit before the move would have left another board,
\* the two tiles being of different values.)
C39_Witness ==
    /\ last.op = "undo" /\ last.accepted
    /\ undosUsed = 1 /\ Len(undoStack) = 1 /\ movesLeft = 0
    /\ exchangesUsed = ExchangeCap
    /\ Values(cells) = AfterMerge
    /\ score = ScoreOf(AfterMerge)

----------------------------------------------------------------------------
(* The input events and the render metadata *)

\* the events InputManager emits (src/unnamed/part_001)
Emitted == {"move", "restart", "undo", "exchangeToggle", "removeToggle", "tileClick"}

\* a game that listens to the remove button as well
SubscribedWithRemove ==
    {"move", "restart", "undo", "exchangeToggle", "removeToggle", "tileClick"}

\* the events GameManager registers a handler for: this.input.on(event, ...)
Subscribed == {"move", "restart", "undo", "exchangeToggle", "tileClick"}

\* the fields of the metadata actuate hands to render
MetaFields ==
    {"over", "won", "terminated", "score", "bestScore", "undosLeft", "canUndo", "isUndo",
     "exchangesLeft", "canExchange", "exchangeMode", "exchangeFirst", "exchangeSecond",
     "exchangePending", "isExchange"}

\* the fields about the removal of tiles render reads from the metadata
RemoveReads ==
    {"isRemove", "removeMode", "removePending", "removeTarget", "removesLeft", "canRemove"}

\* !!meta[field] for a field actuate does not set: undefined, hence false; a
\* field it sets may be true
MayBeSet(field) == field \in MetaFields

\* InputManager.emit(event) for an event without callbacks: this.events[event]
\* is undefined and nothing is called
EmitUnheard(event) ==
    /\ event \notin Subscribed
    /\ last' = Obs(event, FALSE, -1, NoPos, 0, NoPos)
    /\ UNCHANGED <<gameVars, timers, snd, storedBest, movesLeft, restartsLeft>>

\* the game after its first merge with the remove button and its key (B)
\* pressed at any moment
NextRemove ==
    /\ ~Idle
    /\ \/ \E d \in Dirs : Move(d)
       \/ Undo
       \/ ExchangeToggle
       \/ \E pos \in Pos : HandleTileClick(pos)
       \/ DwellFire
       \/ \E event \in Emitted : EmitUnheard(event)
    /\ UNCHANGED <<fx, store, dom>>

SpecRemove == InitHistory /\ [][NextRemove]_vars

(* C40: the removeToggle input event is ignored by the game: no handler is
   registered for it, so in every state it changes no grid cell, score,
   counter or mode and causes no render; no tile is ever deleted (the number
   of tiles changes by a move, an undo or a restart only); and the render
   metadata never reports a remove mode or a remaining remove count. *)
C40_RemoveToggleIgnored ==
    /\ []("removeToggle" \in Emitted \ Subscribed)
    /\ [](\A field \in RemoveReads : ~MayBeSet(field))
    /\ [][/\ last'.op = "removeToggle" =>
                (last'.renders = 0 /\ UNCHANGED <<gameVars, timers, snd, storedBest>>)
          /\ last'.op \notin {"move", "undo", "restart"} =>
                TileCount(Values(cells')) = TileCount(Values(cells))]_vars

\* removeToggle arrived in exchange mode with a first tile selected, and the
\* selection stands
C40_Witness ==
    /\ last.op = "removeToggle"
    /\ exchangeMode /\ exchangeFirst # NoPos
    /\ TileCount(Values(cells)) >= 2

\* removeToggle arrived while a swap was pending
C40_WitnessPending ==
    /\ last.op = "removeToggle"
    /\ exchangePending
====
